---- MODULE Spec2Model ----
(***************************************************************************)
(* Document ingestion of the study assistant server: the upload route,     *)
(* processDocumentUpload, the bounded "race the promise list" pool of      *)
(* generateEmbeddings, storeDocument, the upload-status map and its        *)
(* polling endpoint.                                                       *)
(*                                                                         *)
(* Strings are run-length encoded: a text is a sequence of runs            *)
(* [c |-> character, n |-> repetitions], no empty run and no two adjacent  *)
(* runs of the same character, so two texts are equal exactly when their   *)
(* encodings are.  length, slice and trim are computed on the encoding.    *)
(*                                                                         *)
(* A step of the model is the synchronous code that runs between two       *)
(* suspensions on an outside collaborator (PDF parser, embedding provider) *)
(* or on the promises of the batch pool.                                   *)
(***************************************************************************)
EXTENDS Integers, Sequences, FiniteSets, TLC

\* ---------------------------------------------------------------- bounds
\* largest number of embedding batches of an upload
MaxBatches == 5

\* ------------------------------------------------------ UPLOAD_CONFIG
MAX_EMBEDDING_CHARS == 512
CHUNK_SIZE == 1500
CHUNK_OVERLAP == 200
OPENAI_BATCH_SIZE == 16
OLLAMA_BATCH_SIZE == 4
CONCURRENCY_LIMIT == 3
\* getOpenAIEmbedding: input: text.slice(0, 8000)
OPENAI_INPUT_CHARS == 8000

Min(a, b) == IF a < b THEN a ELSE b
Max(a, b) == IF a > b THEN a ELSE b

\* ---------------------------------------------------------------- strings
Str(c, n) == IF n > 0 THEN <<[c |-> c, n |-> n]>> ELSE <<>>

RECURSIVE TLen(_)
TLen(t) == IF t = <<>> THEN 0 ELSE Head(t).n + TLen(Tail(t))

\* String.prototype.slice(a, b) for 0 <= a, 0 <= b
RECURSIVE Slice(_, _, _)
Slice(t, a, b) ==
  IF t = <<>> \/ b <= 0 \/ b <= a THEN <<>>
  ELSE LET r == Head(t)
           lo == Min(a, r.n)
           hi == Min(b, r.n)
       IN  Str(r.c, hi - lo) \o
           Slice(Tail(t), Max(a - r.n, 0), Max(b - r.n, 0))

\* s + t
Cat(s, t) ==
  IF s = <<>> THEN t
  ELSE IF t = <<>> THEN s
  ELSE IF s[Len(s)].c = t[1].c
    THEN SubSeq(s, 1, Len(s) - 1) \o <<[c |-> t[1].c, n |-> s[Len(s)].n + t[1].n]>>
           \o Tail(t)
  ELSE s \o t

\* String.prototype.trim(): the blank and the line feed are the white space
\* of the model
RECURSIVE Trim(_)
Trim(t) ==
  IF t # <<>> /\ t[1].c \in {" ", "\n"} THEN Trim(Tail(t))
  ELSE IF t # <<>> /\ t[Len(t)].c \in {" ", "\n"} THEN Trim(SubSeq(t, 1, Len(t) - 1))
  ELSE t

\* a test that looks at the first character only
TrimNonEmptyHead(t) == t # <<>> /\ t[1].c # " "

\* a string is truthy when it is not empty
TrimNonEmpty(t) == Trim(t) # <<>>

\* a push that numbers the chunks from 1
PushChunkFromOne(allChunks, chunkText) ==
  CHOOSE pushed \in { Append(all, [chunk_index |-> Len(all) + 1, chunk_text |-> chunkText]) :
                        all \in {allChunks} } : TRUE

\* ------------------------------------------------------------ chunking
\* allChunks.push({ chunk_index: allChunks.length, chunk_text: chunkText }):
\* the list is bound once, so that its length and its elements are those of
\* one and the same list
PushChunk(allChunks, chunkText) ==
  CHOOSE pushed \in { Append(all, [chunk_index |-> Len(all), chunk_text |-> chunkText]) :
                        all \in {allChunks} } : TRUE

\* the windows of one page, appended to the chunks collected so far
RECURSIVE PageChunks(_, _, _)
PageChunks(pageText, i, allChunks) ==
  IF i >= TLen(pageText) THEN allChunks
  ELSE LET chunkText == Slice(pageText, i, i + CHUNK_SIZE)
       IN  PageChunks(pageText, i + (CHUNK_SIZE - CHUNK_OVERLAP),
             IF TrimNonEmpty(chunkText)
               THEN PushChunk(allChunks, chunkText)
               ELSE allChunks)

RECURSIVE ChunksFrom(_, _)
ChunksFrom(pages, allChunks) ==
  IF pages = <<>> THEN allChunks
  ELSE ChunksFrom(Tail(pages), PageChunks(Head(pages), 0, allChunks))

createDocumentChunks(pages) == ChunksFrom(pages, <<>>)

RECURSIVE batchFrom(_, _, _)
batchFrom(arr, i, batchSize) ==
  IF i >= Len(arr) THEN <<>>
  ELSE <<SubSeq(arr, i + 1, Min(i + batchSize, Len(arr)))>>
         \o batchFrom(arr, i + batchSize, batchSize)

\* a batching that keeps the full slices only
batchArrayFullOnly(arr, batchSize) ==
  batchFrom(SubSeq(arr, 1, Len(arr) - (Len(arr) % batchSize)), 0, batchSize)

batchArray(arr, batchSize) == batchFrom(arr, 0, batchSize)

BatchSizeOf(provider) ==
  IF provider = "openai" THEN OPENAI_BATCH_SIZE ELSE OLLAMA_BATCH_SIZE

\* ------------------------------------------------------------ provider
\* the vector an embedding model returns for a text: identified by the
\* model and the text it was computed from
EmbeddingModel(provider) ==
  IF provider = "openai" THEN "text-embedding-3-small"
  ELSE "zylonai/multilingual-e5-large"

Vector(provider, text) == [model |-> EmbeddingModel(provider), of |-> text]

\* the text a chunk is submitted with
EmbeddingInput(chunk) == Slice(chunk.chunk_text, 0, MAX_EMBEDDING_CHARS)

\* getEmbedding(text, provider) of the server
getEmbedding(text, provider) ==
  IF provider = "ollama" THEN Vector("ollama", text)
  ELSE Vector("openai", Slice(text, 0, OPENAI_INPUT_CHARS))


\* ------------------------------------------------------- error messages
\* an error message is the sequence of the pieces it is made of;
\* message.includes(piece) looks for a piece
Includes(message, piece) == \E i \in 1..Len(message) : message[i] = piece

NoFileUploaded == <<"No file uploaded">>
FailedToExtract == <<"Failed to extract text", " from PDF">>
FailedToStore == <<"Failed to store document">>
\* what a failing provider request throws: getOllamaEmbedding prefixes the
\* body of the failed response, the OpenAI client throws its own error
ProviderErrors(prov) ==
  IF prov = "ollama" THEN { <<"Ollama embedding failed: ", "model not found">> }
  ELSE { <<"Connection error.">> }

\* a handler that passes the message of a failed extraction on as it is
ErrorReplyUnsanitized(message) ==
  IF Includes(message, "No file uploaded") \/ Includes(message, "Failed to extract text")
    THEN [error |-> message, code |-> 400]
  ELSE [error |-> <<"Failed to process document">>, code |-> 500]

\* handleUploadError: the message sent and recorded, and the status code
ErrorReply(message) ==
  IF Includes(message, "No file uploaded")
    THEN [error |-> message, code |-> 400]
  ELSE IF Includes(message, "Failed to extract text")
    THEN [error |-> <<"Invalid PDF file or corrupted document">>, code |-> 400]
  ELSE [error |-> <<"Failed to process document">>, code |-> 500]

\* ------------------------------------------------------ upload status
\* an absent field is <<>>; status is a non-empty tuple, a number n is <<n>>
Fields == {"status", "progress", "error", "chunk", "totalChunks"}
NoFields == [f \in Fields |-> <<>>]

\* an update that replaces the entry
MergeReplace(old, update) == update

\* { ...old, ...update }
Merge(old, update) ==
  [f \in Fields |-> IF update[f] # <<>> THEN update[f] ELSE old[f]]

\* a tracker whose update reaches every entry there is
updateUploadStatusAll(map, uploadId, update) ==
  [id \in DOMAIN map |->
     IF id = uploadId \/ map[id] # <<>>
       THEN <<Merge(IF map[id] = <<>> THEN NoFields ELSE map[id][1], update)>>
       ELSE map[id]]

\* the map holds <<>> (undefined) or <<entry>> for an id
updateUploadStatus(map, uploadId, update) ==
  [map EXCEPT ![uploadId] =
     <<Merge(IF @ = <<>> THEN NoFields ELSE @[1], update)>>]

\* the map is a plain object ({}): besides its own keys it has the
\* properties it inherits from Object.prototype, of which this is one
InheritedKeys == {"__proto__"}

\* uploadStatus[uploadId]: the own entry, else an inherited property (for
\* "__proto__" the prototype object, which has none of the fields), else
\* undefined
Property(map, uploadId) ==
  IF uploadId \in DOMAIN map /\ map[uploadId] # <<>> THEN map[uploadId]
  ELSE IF uploadId \in InheritedKeys THEN <<NoFields>>
  ELSE <<>>

\* uploadStatus[uploadId] || { status: 'Unknown upload', progress: 0 }
getUploadStatus(map, uploadId) ==
  IF Property(map, uploadId) # <<>> THEN Property(map, uploadId)[1]
  ELSE [NoFields EXCEPT !.status = <<"Unknown upload">>, !.progress = <<0>>]

StatusExtracting ==
  [NoFields EXCEPT !.status = <<"Extracting text...">>, !.progress = <<10>>]
\* a progress update that counts the embedding phase for the whole range
StatusEmbeddedUnscaled(processed, total) ==
  [NoFields EXCEPT !.status = <<"Embedded", processed, total>>,
                   !.progress = <<10 + ((100 * processed) \div total)>>,
                   !.chunk = <<processed>>,
                   !.totalChunks = <<total>>]
\* a progress update that rounds up
StatusEmbeddedRoundedUp(processed, total) ==
  [NoFields EXCEPT !.status = <<"Embedded", processed, total>>,
                   !.progress = <<10 + ((80 * processed + total - 1) \div total)>>,
                   !.chunk = <<processed>>,
                   !.totalChunks = <<total>>]
StatusEmbedded(processed, total) ==
  [NoFields EXCEPT !.status = <<"Embedded", processed, total>>,
                   !.progress = <<10 + ((80 * processed) \div total)>>,
                   !.chunk = <<processed>>,
                   !.totalChunks = <<total>>]
StatusComplete ==
  [NoFields EXCEPT !.status = <<"Upload complete!">>, !.progress = <<100>>]
StatusError(message) ==
  [NoFields EXCEPT !.status = <<"Error">>, !.progress = <<0>>,
                   !.error = message]

\* the embeddingProvider a request is processed with
validateProvider(field) == IF field = "ollama" THEN "ollama" ELSE "openai"


\* ------------------------------------------------------------ requests
\* the uploads the server may receive, and the ids a client may poll
UploadIds == {"u1", "u2"}
StatusIds == UploadIds \cup {"nojob"}

\* a page with n characters: a heading, then body text
Page(n) == Str("a", Min(n, 600)) \o Str("b", n - 600)

\* a one-page document whose page has k windows
WindowsPage(k) == Page((CHUNK_SIZE - CHUNK_OVERLAP) * (k - 1) + 1)

\* extracted page lists of the sample documents: a scanned page without text,
\* three short pages around a blank one, and pages of 1..MaxBatches batches
\* of four chunks
SamplePages ==
  { << <<>> >>,
    << Str("a", 100), Str(" ", 3), Str("b", 700) >> }
  \cup { << WindowsPage(OLLAMA_BATCH_SIZE * (n - 1) + 1) >> : n \in 2..MaxBatches }

\* req.file and req.body.embeddingProvider; <<>> when multer stored no file
SampleRequests ==
  { [file |-> <<>>, embeddingProvider |-> "openai"] }
  \cup { [file |-> <<[parseable |-> FALSE, pages |-> <<>>]>>,
          embeddingProvider |-> "ollama"] }
  \cup { [file |-> <<[parseable |-> TRUE, pages |-> pg]>>, embeddingProvider |-> pr] :
           pg \in SamplePages, pr \in {"openai", "ollama", "gemini"} }

VARIABLES
  req,             \* [UploadIds -> <<>> or <<request>>]: the request still to arrive
  pc,              \* where each upload's route handler is
  provider,        \* embeddingProvider of the validated request
  tempFile,        \* whether the temporary upload file exists
  unlinkFailed,    \* whether fs.unlinkSync threw for the upload's file
  uploadStatus,    \* the global status map
  fullText,        \* extraction result
  chunks,          \* createDocumentChunks(pages)
  batches,         \* batchArray(chunks, batchSize)
  bstate,          \* promise of processBatch(batches[b]): unstarted, pending, fulfilled, rejected
  berr,            \* the error a rejected batch promise carries
  results,         \* results of generateEmbeddings
  processedChunks, \* processedChunks of generateEmbeddings
  idx,             \* idx of runBatches
  pool,            \* pool of runBatches: batch numbers, in push order
  awaited,         \* the promise runBatches awaits (Promise.race / Promise.all)
  embeddedChunks,  \* what generateEmbeddings returned: <<>> or <<list>>
  chunkData,       \* what storeDocument passed to saveChunks: <<>> or <<rows>>
  docId,           \* docId of storeDocument (0: none yet)
  documents,       \* Document rows, in insertion order
  chunkRows,       \* Chunk rows, in insertion order
  lastDocId,       \* last id the store assigned
  res,             \* the HTTP response: <<>> or <<response>>
  storeLog,        \* per upload: the persistence steps and the final status write, in order
  firstStatus,     \* per upload: the first update written to its status entry
  failure,         \* per upload: what made it fail ("none" while nothing did)
  lastRead,        \* per polled id: progress of the last upload-status response
  lastUpdate,      \* the last direct call updateUploadStatus(id, partial): <<>> or <<call>>
  returned,        \* the last direct call getUploadStatus(id) and what it returned
  ragQuery,        \* the last call of processRAGQuery and what it returned: <<>> or <<call>>
  chat,            \* the request of POST /api/chat being served: <<>> or <<turn>>
  ragUsageLog,     \* rag_usage_log.json: <<>> (no file) or <<file>>
  logCall,         \* the last direct call of logRAGUsage: <<>> or <<call>>
  chunked,         \* the last direct call of createDocumentChunks: <<>> or <<call>>
  textChunker,     \* a call of chunkText: <<>> or <<its text, chunkSize and locals>>
  generated,       \* the last direct call of generateResponse: <<>> or <<call>>
  webClient        \* useDocumentManager of the mounted web client: its state, timers and requests

vars == <<req, pc, provider, tempFile, unlinkFailed, uploadStatus, fullText, chunks,
          batches, bstate, berr, results, processedChunks, idx, pool, awaited,
          embeddedChunks, chunkData, docId, documents, chunkRows, lastDocId, res,
          storeLog, firstStatus, failure, lastRead, lastUpdate, returned, ragQuery,
          chat, ragUsageLog, logCall, chunked, textChunker, generated, webClient>>

\* what no step of an upload request touches
chatVars == <<chat, ragUsageLog, logCall>>
outsideUpload == <<lastUpdate, returned, ragQuery, chatVars, chunked, textChunker, generated, webClient>>

uploadVars == <<provider, fullText, chunks, batches, bstate, berr, results,
                processedChunks, idx, pool, awaited, embeddedChunks>>
storeVars == <<chunkData, docId, documents, chunkRows, lastDocId, storeLog>>

NotAwaiting == [state |-> "none", err |-> <<>>]

\* no upload taken up yet, no call made yet, no page of the client open
InitOutsideStatus ==
  /\ pc = [u \in UploadIds |-> "idle"]
  /\ provider = [u \in UploadIds |-> "openai"]
  /\ tempFile = [u \in UploadIds |-> req[u] # <<>> /\ req[u][1].file # <<>>]
  /\ unlinkFailed = [u \in UploadIds |-> FALSE]
  /\ fullText = [u \in UploadIds |-> <<>>]
  /\ chunks = [u \in UploadIds |-> <<>>]
  /\ batches = [u \in UploadIds |-> <<>>]
  /\ bstate = [u \in UploadIds |-> <<>>]
  /\ berr = [u \in UploadIds |-> <<>>]
  /\ results = [u \in UploadIds |-> <<>>]
  /\ processedChunks = [u \in UploadIds |-> 0]
  /\ idx = [u \in UploadIds |-> 0]
  /\ pool = [u \in UploadIds |-> <<>>]
  /\ awaited = [u \in UploadIds |-> NotAwaiting]
  /\ embeddedChunks = [u \in UploadIds |-> <<>>]
  /\ chunkData = [u \in UploadIds |-> <<>>]
  /\ docId = [u \in UploadIds |-> 0]
  /\ res = [u \in UploadIds |-> <<>>]
  /\ storeLog = [u \in UploadIds |-> <<>>]
  /\ firstStatus = [u \in UploadIds |-> <<>>]
  /\ failure = [u \in UploadIds |-> "none"]
  /\ lastRead = [i \in StatusIds |-> 0]
  /\ lastUpdate = <<>>
  /\ returned = <<>>
  /\ ragQuery = <<>>
  /\ chat = <<>>
  /\ ragUsageLog = <<>>
  /\ logCall = <<>>
  /\ chunked = <<>>
  /\ textChunker = <<>>
  /\ generated = <<>>
  /\ webClient = [currentUploadId |-> <<>>, uploadProgress |-> <<>>, isUploading |-> FALSE,
                   effectFor |-> <<>>, intervalRef |-> <<>>, intervals |-> {},
                   handles |-> 0, uploads |-> 0, polls |-> <<>>, timeouts |-> 0]

\* the same, the status map empty as at server start
InitPipeline ==
  /\ uploadStatus = [i \in StatusIds |-> <<>>]
  /\ InitOutsideStatus

\* the same, with an empty store
InitCommon ==
  /\ InitPipeline
  /\ documents = <<>>
  /\ chunkRows = <<>>
  /\ lastDocId = 0

\* one upload request, any sample document; no request arrives for "u2"
Init ==
  /\ \E r \in SampleRequests : req = [u \in UploadIds |-> IF u = "u1" THEN <<r>> ELSE <<>>]
  /\ InitCommon


\* --------------------------------------------------- the promise pool
Settled(st) == st \in {"fulfilled", "rejected"}

\* Promise.race(pool) at the time of the call: the reaction of the first
\* already settled promise, in pool order, runs first; else it stays pending
RaceAtCall(poolv, bst, errs) ==
  IF \E i \in 1..Len(poolv) : Settled(bst[poolv[i]])
    THEN LET i == CHOOSE j \in 1..Len(poolv) :
                    /\ Settled(bst[poolv[j]])
                    /\ \A k \in 1..(j - 1) : ~Settled(bst[poolv[k]])
         IN  [state |-> bst[poolv[i]], err |-> errs[poolv[i]]]
    ELSE [state |-> "pending", err |-> <<>>]

\* Promise.all(pool) at the time of the call
AllAtCall(poolv, bst, errs) ==
  IF \E i \in 1..Len(poolv) : bst[poolv[i]] = "rejected"
    THEN LET i == CHOOSE j \in 1..Len(poolv) :
                    /\ bst[poolv[j]] = "rejected"
                    /\ \A k \in 1..(j - 1) : bst[poolv[k]] # "rejected"
         IN  [state |-> "rejected", err |-> errs[poolv[i]]]
  ELSE IF \A i \in 1..Len(poolv) : bst[poolv[i]] = "fulfilled"
    THEN [state |-> "fulfilled", err |-> <<>>]
  ELSE [state |-> "pending", err |-> <<>>]

\* the promise runBatches awaits, after batch b settled with newState
Notify(aw, pcv, poolv, b, newState, err, bstNew) ==
  IF aw.state # "pending" \/ ~(\E i \in 1..Len(poolv) : poolv[i] = b) THEN aw
  ELSE IF pcv = "race" THEN [state |-> newState, err |-> err]
  ELSE IF newState = "rejected" THEN [state |-> "rejected", err |-> err]
  ELSE IF \A i \in 1..Len(poolv) : bstNew[poolv[i]] = "fulfilled"
    THEN [state |-> "fulfilled", err |-> <<>>]
  ELSE aw

\* runBatches from the test of its outer loop to its next await: the inner
\* loop starts batches while the pool has room, then Promise.race(pool);
\* past the last batch, Promise.all(pool)
RunBatches(poolv, idxv, bst, errs) ==
  IF idxv < Len(bst)
    THEN LET k == Min(Max(CONCURRENCY_LIMIT - Len(poolv), 0), Len(bst) - idxv)
             newPool == poolv \o [i \in 1..k |-> idxv + i]
             newBst == [b \in 1..Len(bst) |->
                          IF b > idxv /\ b <= idxv + k THEN "pending" ELSE bst[b]]
         IN  [pc |-> "race", pool |-> newPool, idx |-> idxv + k, bstate |-> newBst,
              awaited |-> RaceAtCall(newPool, newBst, errs)]
    ELSE [pc |-> "all", pool |-> poolv, idx |-> idxv, bstate |-> bst,
          awaited |-> AllAtCall(poolv, bst, errs)]

\* processBatch: the embeddings of a batch, as the provider returns them
\* (one vector per submitted text, in input order)
BatchEmbeddings(prov, batch) ==
  [i \in 1..Len(batch) |-> Vector(prov, EmbeddingInput(batch[i]))]

\* a processBatch that pairs the chunks of a batch with its vectors in
\* opposite orders
StoreResultsReversed(batch, embeddings) ==
  [i \in 1..Len(batch) |->
     [chunk |-> batch[i], embedding |-> embeddings[Len(batch) + 1 - i]]]

\* processBatch: "Store results"
StoreResults(batch, embeddings) ==
  [i \in 1..Len(batch) |-> [chunk |-> batch[i], embedding |-> embeddings[i]]]

\* ------------------------------------------------------------ the store
\* documentDb.saveDocument: a new row, its id assigned by the store
saveDocument(docs, id, title, originalname) ==
  Append(docs, [id |-> id, title |-> title, originalname |-> originalname,
                embedding |-> <<>>, text |-> <<>>])

\* documentDb.saveChunks(docId, chunkData): one row per element, in order
saveChunks(rows, id, data) ==
  rows \o [i \in 1..Len(data) |->
             [document_id |-> id, chunk_index |-> data[i].chunk_index,
              chunk_text |-> data[i].chunk_text, embedding |-> data[i].embedding]]

\* documentDb.updateDocumentEmbeddingAndText
updateDocumentEmbeddingAndText(docs, id, embedding, text) ==
  [i \in 1..Len(docs) |->
     IF docs[i].id = id
       THEN [docs[i] EXCEPT !.embedding = <<embedding>>, !.text = text]
       ELSE docs[i]]

\* storeDocument: chunkData
ChunkData(embedded) ==
  [i \in 1..Len(embedded) |->
     [chunk_index |-> embedded[i].chunk.chunk_index,
      chunk_text |-> embedded[i].chunk.chunk_text,
      embedding |-> embedded[i].embedding]]

\* storeDocument: the text of the document-level embedding
DocEmbeddingText(text) ==
  IF TLen(text) > MAX_EMBEDDING_CHARS THEN Slice(text, 0, MAX_EMBEDDING_CHARS) ELSE text

\* extractTextFromPDF: fullText += pageText + ' ' for every page, then trim()
RECURSIVE JoinPages(_, _)
JoinPages(pages, text) ==
  IF pages = <<>> THEN text
  ELSE JoinPages(Tail(pages), Cat(Cat(text, Head(pages)), Str(" ", 1)))

ExtractedFullText(pages) == Trim(JoinPages(pages, <<>>))


\* ------------------------------------------------------------- actions
Request(u) == req[u][1]
File(u) == Request(u).file[1]

\* cleanupTempFile: unlink the file if it exists; an unlink that throws is
\* logged and swallowed
CleanupTempFile(u) ==
  \E unlinkOk \in BOOLEAN :
    /\ tempFile' = [tempFile EXCEPT ![u] = @ /\ ~unlinkOk]
    /\ unlinkFailed' = [unlinkFailed EXCEPT ![u] = @ \/ (tempFile[u] /\ ~unlinkOk)]

\* a catch block that rethrows without the cleanup
UploadCatchNoCleanup(u) == UNCHANGED <<tempFile, unlinkFailed>>

\* processDocumentUpload: catch (error) { cleanupTempFile(file.path); throw error }
UploadCatch(u) == CleanupTempFile(u)

\* a call updateUploadStatus(uploadId, update)
WriteStatus(u, update) ==
  /\ uploadStatus' = updateUploadStatus(uploadStatus, u, update)
  /\ firstStatus' = [firstStatus EXCEPT ![u] = IF @ = <<>> THEN <<update>> ELSE @]

\* a route that records the error and never answers the request
HandleUploadErrorNoReply(u, message) ==
  /\ WriteStatus(u, StatusError(ErrorReply(message).error))
  /\ pc' = [pc EXCEPT ![u] = "done"]
  /\ UNCHANGED res

\* the route's catch: handleUploadError(error, uploadId, res)
HandleUploadError(u, message) ==
  LET reply == ErrorReply(message)
  IN  /\ WriteStatus(u, StatusError(reply.error))
      /\ res' = [res EXCEPT ![u] = <<[code |-> reply.code, error |-> reply.error, id |-> 0]>>]
      /\ pc' = [pc EXCEPT ![u] = "done"]

\* POST /api/documents/upload without a file: validateUploadRequest throws
ValidateFail(u) ==
  /\ pc[u] = "idle" /\ req[u] # <<>>
  /\ Request(u).file = <<>>
  /\ HandleUploadError(u, NoFileUploaded)
  /\ failure' = [failure EXCEPT ![u] = "validation"]
  /\ UNCHANGED <<req, outsideUpload, tempFile, unlinkFailed, uploadVars, storeVars, lastRead>>

\* POST /api/documents/upload with a file, up to the await of the PDF parser
UploadStart(u) ==
  /\ pc[u] = "idle" /\ req[u] # <<>>
  /\ Request(u).file # <<>>
  /\ provider' = [provider EXCEPT ![u] = validateProvider(Request(u).embeddingProvider)]
  /\ WriteStatus(u, StatusExtracting)
  /\ pc' = [pc EXCEPT ![u] = "extracting"]
  /\ UNCHANGED <<req, outsideUpload, tempFile, unlinkFailed, fullText, chunks, batches, bstate, berr,
                 results, processedChunks, idx, pool, awaited, embeddedChunks,
                 storeVars, res, failure, lastRead>>

\* extractTextFromPDF throws 'Failed to extract text from PDF'
ExtractFail(u) ==
  /\ pc[u] = "extracting"
  /\ ~File(u).parseable
  /\ UploadCatch(u)
  /\ HandleUploadError(u, FailedToExtract)
  /\ failure' = [failure EXCEPT ![u] = "extraction"]
  /\ UNCHANGED <<req, outsideUpload, uploadVars, storeVars, lastRead>>

\* extraction returns: createDocumentChunks, then generateEmbeddings up to
\* the first await of runBatches
ExtractOk(u) ==
  /\ pc[u] = "extracting"
  /\ File(u).parseable
  /\ \E cs \in {createDocumentChunks(File(u).pages)} :
     \E bs \in {batchArray(cs, BatchSizeOf(provider[u]))} :
     \E run \in {RunBatches(<<>>, 0, [b \in 1..Len(bs) |-> "unstarted"],
                            [b \in 1..Len(bs) |-> <<>>])} :
         /\ fullText' = [fullText EXCEPT ![u] = ExtractedFullText(File(u).pages)]
         /\ chunks' = [chunks EXCEPT ![u] = cs]
         /\ batches' = [batches EXCEPT ![u] = bs]
         /\ berr' = [berr EXCEPT ![u] = [b \in 1..Len(bs) |-> <<>>]]
         /\ bstate' = [bstate EXCEPT ![u] = run.bstate]
         /\ pool' = [pool EXCEPT ![u] = run.pool]
         /\ idx' = [idx EXCEPT ![u] = run.idx]
         /\ awaited' = [awaited EXCEPT ![u] = run.awaited]
         /\ pc' = [pc EXCEPT ![u] = run.pc]
  /\ UNCHANGED <<req, outsideUpload, provider, tempFile, unlinkFailed, uploadStatus, results,
                 processedChunks, embeddedChunks, storeVars, res, firstStatus, failure,
                 lastRead>>

\* the provider answers every request of batch b: processBatch stores the
\* results, updates the progress and its promise is fulfilled
BatchComplete(u, b) ==
  /\ b \in 1..Len(bstate[u])
  /\ bstate[u][b] = "pending"
  /\ LET batch == batches[u][b]
         processed == processedChunks[u] + Len(batch)
         bst == [bstate[u] EXCEPT ![b] = "fulfilled"]
     IN  /\ results' = [results EXCEPT ![u] =
                          @ \o StoreResults(batch, BatchEmbeddings(provider[u], batch))]
         /\ processedChunks' = [processedChunks EXCEPT ![u] = processed]
         /\ WriteStatus(u, StatusEmbedded(processed, Len(chunks[u])))
         /\ bstate' = [bstate EXCEPT ![u] = bst]
         /\ awaited' = [awaited EXCEPT ![u] =
                          Notify(@, pc[u], pool[u], b, "fulfilled", <<>>, bst)]
  /\ UNCHANGED <<req, outsideUpload, pc, provider, tempFile, unlinkFailed, fullText, chunks, batches,
                 berr, idx, pool, embeddedChunks, storeVars, res, failure, lastRead>>

\* a provider request of batch b fails: the promise of processBatch is rejected
BatchFail(u, b) ==
  /\ b \in 1..Len(bstate[u])
  /\ bstate[u][b] = "pending"
  /\ \E message \in ProviderErrors(provider[u]) :
       LET bst == [bstate[u] EXCEPT ![b] = "rejected"]
       IN  /\ bstate' = [bstate EXCEPT ![u] = bst]
           /\ berr' = [berr EXCEPT ![u][b] = message]
           /\ awaited' = [awaited EXCEPT ![u] =
                            Notify(@, pc[u], pool[u], b, "rejected", message, bst)]
  /\ UNCHANGED <<req, outsideUpload, pc, provider, tempFile, unlinkFailed, uploadStatus, fullText,
                 chunks, batches, results, processedChunks, idx, pool, embeddedChunks,
                 storeVars, res, firstStatus, failure, lastRead>>

\* runBatches resumes from await Promise.race(pool): pool.shift(), next round
RaceFulfilled(u) ==
  /\ pc[u] = "race"
  /\ awaited[u].state = "fulfilled"
  /\ LET run == RunBatches(Tail(pool[u]), idx[u], bstate[u], berr[u])
     IN  /\ bstate' = [bstate EXCEPT ![u] = run.bstate]
         /\ pool' = [pool EXCEPT ![u] = run.pool]
         /\ idx' = [idx EXCEPT ![u] = run.idx]
         /\ awaited' = [awaited EXCEPT ![u] = run.awaited]
         /\ pc' = [pc EXCEPT ![u] = run.pc]
  /\ UNCHANGED <<req, outsideUpload, provider, tempFile, unlinkFailed, uploadStatus, fullText, chunks,
                 batches, berr, results, processedChunks, embeddedChunks, storeVars,
                 res, firstStatus, failure, lastRead>>

\* await Promise.race(pool) or await Promise.all(pool) throws: runBatches,
\* generateEmbeddings and processDocumentUpload reject, the route answers
EmbeddingsRejected(u) ==
  /\ pc[u] \in {"race", "all"}
  /\ awaited[u].state = "rejected"
  /\ UploadCatch(u)
  /\ HandleUploadError(u, awaited[u].err)
  /\ failure' = [failure EXCEPT ![u] = "provider"]
  /\ awaited' = [awaited EXCEPT ![u] = NotAwaiting]
  /\ UNCHANGED <<req, outsideUpload, provider, fullText, chunks, batches, bstate, berr, results,
                 processedChunks, idx, pool, embeddedChunks, storeVars, lastRead>>


\* await Promise.all(pool) returns: generateEmbeddings returns results and
\* storeDocument saves the document and the chunks, then awaits the
\* document-level embedding
StoreDocument(u) ==
  /\ pc[u] = "all"
  /\ awaited[u].state = "fulfilled"
  /\ LET id == lastDocId + 1
         data == ChunkData(results[u])
     IN  /\ embeddedChunks' = [embeddedChunks EXCEPT ![u] = <<results[u]>>]
         /\ documents' = saveDocument(documents, id, u, u)
         /\ lastDocId' = id
         /\ docId' = [docId EXCEPT ![u] = id]
         /\ chunkData' = [chunkData EXCEPT ![u] = <<data>>]
         /\ chunkRows' = saveChunks(chunkRows, id, data)
         /\ storeLog' = [storeLog EXCEPT ![u] = <<"saveDocument", "saveChunks">>]
  /\ awaited' = [awaited EXCEPT ![u] = NotAwaiting]
  /\ pc' = [pc EXCEPT ![u] = "docEmbedding"]
  /\ UNCHANGED <<req, outsideUpload, provider, tempFile, unlinkFailed, uploadStatus, fullText, chunks,
                 batches, bstate, berr, results, processedChunks, idx, pool, res,
                 firstStatus, failure, lastRead>>

\* the same, with the store throwing in saveDocument or in saveChunks:
\* storeDocument throws 'Failed to store document'
StoreDocumentFails(u) ==
  /\ pc[u] = "all"
  /\ awaited[u].state = "fulfilled"
  /\ embeddedChunks' = [embeddedChunks EXCEPT ![u] = <<results[u]>>]
  /\ \/ UNCHANGED storeVars
     \/ LET id == lastDocId + 1
        IN  /\ documents' = saveDocument(documents, id, u, u)
            /\ lastDocId' = id
            /\ docId' = [docId EXCEPT ![u] = id]
            /\ chunkData' = [chunkData EXCEPT ![u] = <<ChunkData(results[u])>>]
            /\ storeLog' = [storeLog EXCEPT ![u] = <<"saveDocument">>]
            /\ UNCHANGED chunkRows
  /\ awaited' = [awaited EXCEPT ![u] = NotAwaiting]
  /\ UploadCatch(u)
  /\ HandleUploadError(u, FailedToStore)
  /\ failure' = [failure EXCEPT ![u] = "storage"]
  /\ UNCHANGED <<req, outsideUpload, provider, fullText, chunks, batches, bstate, berr, results,
                 processedChunks, idx, pool, lastRead>>

\* a storeDocument that reports 'Upload complete!' before it writes the
\* document-level embedding back
DocumentEmbeddedStatusFirst(u) ==
  /\ pc[u] = "docEmbedding"
  /\ WriteStatus(u, StatusComplete)
  /\ documents' = updateDocumentEmbeddingAndText(documents, docId[u],
                    getEmbedding(DocEmbeddingText(fullText[u]), provider[u]),
                    fullText[u])
  /\ storeLog' = [storeLog EXCEPT ![u] =
                    @ \o <<"Upload complete!", "updateDocumentEmbeddingAndText">>]
  /\ CleanupTempFile(u)
  /\ res' = [res EXCEPT ![u] = <<[code |-> 200, error |-> <<>>, id |-> docId[u]]>>]
  /\ pc' = [pc EXCEPT ![u] = "done"]
  /\ UNCHANGED <<req, outsideUpload, uploadVars, chunkData, docId, chunkRows, lastDocId, failure,
                 lastRead>>

\* getEmbedding returns: the document gets its embedding and text, the
\* status becomes 'Upload complete!', the temp file is removed, 200 is sent
DocumentEmbedded(u) ==
  /\ pc[u] = "docEmbedding"
  /\ documents' = updateDocumentEmbeddingAndText(documents, docId[u],
                    getEmbedding(DocEmbeddingText(fullText[u]), provider[u]),
                    fullText[u])
  /\ storeLog' = [storeLog EXCEPT ![u] =
                    @ \o <<"updateDocumentEmbeddingAndText", "Upload complete!">>]
  /\ WriteStatus(u, StatusComplete)
  /\ CleanupTempFile(u)
  /\ res' = [res EXCEPT ![u] = <<[code |-> 200, error |-> <<>>, id |-> docId[u]]>>]
  /\ pc' = [pc EXCEPT ![u] = "done"]
  /\ UNCHANGED <<req, outsideUpload, uploadVars, chunkData, docId, chunkRows, lastDocId, failure,
                 lastRead>>

\* the provider call of getEmbedding fails: storeDocument catches it and
\* throws 'Failed to store document'
DocumentEmbeddingFails(u) ==
  /\ pc[u] = "docEmbedding"
  /\ UploadCatch(u)
  /\ HandleUploadError(u, FailedToStore)
  /\ failure' = [failure EXCEPT ![u] = "provider"]
  /\ UNCHANGED <<req, outsideUpload, uploadVars, storeVars, lastRead>>

\* getEmbedding returns and updateDocumentEmbeddingAndText throws
DocumentUpdateFails(u) ==
  /\ pc[u] = "docEmbedding"
  /\ UploadCatch(u)
  /\ HandleUploadError(u, FailedToStore)
  /\ failure' = [failure EXCEPT ![u] = "storage"]
  /\ UNCHANGED <<req, outsideUpload, uploadVars, storeVars, lastRead>>

\* GET /api/documents/upload-status/:uploadId
PollStatus(id) ==
  /\ lastRead' = [lastRead EXCEPT ![id] = getUploadStatus(uploadStatus, id).progress[1]]
  /\ UNCHANGED <<req, outsideUpload, pc, tempFile, unlinkFailed, uploadStatus, uploadVars, storeVars,
                 res, firstStatus, failure>>

Next ==
  \/ \E u \in UploadIds : ValidateFail(u)
  \/ \E u \in UploadIds : UploadStart(u)
  \/ \E u \in UploadIds : ExtractFail(u)
  \/ \E u \in UploadIds : ExtractOk(u)
  \/ \E u \in UploadIds : \E b \in 1..MaxBatches : BatchComplete(u, b)
  \/ \E u \in UploadIds : \E b \in 1..MaxBatches : BatchFail(u, b)
  \/ \E u \in UploadIds : RaceFulfilled(u)
  \/ \E u \in UploadIds : EmbeddingsRejected(u)
  \/ \E u \in UploadIds : StoreDocument(u)
  \/ \E u \in UploadIds : StoreDocumentFails(u)
  \/ \E u \in UploadIds : DocumentEmbedded(u)
  \/ \E u \in UploadIds : DocumentEmbeddingFails(u)
  \/ \E u \in UploadIds : DocumentUpdateFails(u)
  \/ \E id \in StatusIds : PollStatus(id)

Spec == Init /\ [][Next]_vars


\* ============================================================== claims
InFlight(u) == {b \in 1..Len(bstate[u]) : bstate[u][b] = "pending"}
GeneratingEmbeddings(u) == pc[u] \in {"race", "all"}
Ended(u) == pc[u] = "done"
ErrorRecorded(u) == uploadStatus[u] # <<>> /\ uploadStatus[u][1].error # <<>>
CompleteWritten(u) == \E i \in 1..Len(storeLog[u]) : storeLog[u][i] = "Upload complete!"
DocumentsOf(u) == {i \in 1..Len(documents) : docId[u] # 0 /\ documents[i].id = docId[u]}
ChunkRowsOf(u) == {i \in 1..Len(chunkRows) : docId[u] # 0 /\ chunkRows[i].document_id = docId[u]}

\* C1: while generateEmbeddings runs, at most CONCURRENCY_LIMIT batches are
\* started and not yet settled
C1_AtMostLimitInFlight ==
  \A u \in UploadIds :
    GeneratingEmbeddings(u) => Cardinality(InFlight(u)) <= CONCURRENCY_LIMIT

\* C2: generateEmbeddings settles only when no batch it started is still
\* pending, and when it resolves the results of every batch are in the list
C2_SettlesAfterEveryBatch ==
  [][\A u \in UploadIds :
       (GeneratingEmbeddings(u) /\ ~GeneratingEmbeddings(u)') =>
         /\ InFlight(u) = {}
         /\ embeddedChunks'[u] # <<>> => Len(embeddedChunks'[u][1]) = Len(chunks[u])]_vars

\* C3: an upload that ended with 'Upload complete!' got one embedding per
\* chunk from generateEmbeddings and passed one row per chunk to saveChunks
C3_CountsMatchOnSuccess ==
  \A u \in UploadIds :
    (Ended(u) /\ CompleteWritten(u)) =>
      /\ Len(embeddedChunks[u][1]) = Len(chunks[u])
      /\ Len(chunkData[u][1]) = Len(chunks[u])

\* C4: an upload that ended with an error because an embedding-provider call
\* failed left no Document row and no Chunk row in the store
C4_NothingPersistedOnProviderFailure ==
  \A u \in UploadIds :
    (Ended(u) /\ failure[u] = "provider") =>
      DocumentsOf(u) = {} /\ ChunkRowsOf(u) = {}

\* C5: once the upload has ended, a failed provider request of any batch has
\* an error recorded for the job and was answered with HTTP 500
C5_BatchFailureObserved ==
  \A u \in UploadIds :
    (Ended(u) /\ \E b \in 1..Len(bstate[u]) : bstate[u][b] = "rejected") =>
      /\ ErrorRecorded(u)
      /\ res[u][1].code = 500

\* C6: no upload-status response carries a lower progress than the response
\* before it for the same id
C6_ProgressNeverDecreases ==
  [][\A id \in StatusIds : lastRead'[id] >= lastRead[id]]_vars


\* the vector of the provider for the text a chunk is submitted with
OwnVector(u, chunkText) ==
  [model |-> IF provider[u] = "openai" THEN "text-embedding-3-small"
             ELSE "zylonai/multilingual-e5-large",
   of |-> Slice(chunkText, 0, 512)]

\* C7: every element of results (so of the list generateEmbeddings returns)
\* and every chunk row persisted pairs a chunk of the upload with the vector
\* of that chunk's own truncated text
C7_ChunkPairedWithOwnVector ==
  \A u \in UploadIds :
    /\ \A i \in 1..Len(results[u]) :
         LET e == results[u][i]
         IN  /\ e.chunk = chunks[u][e.chunk.chunk_index + 1]
             /\ e.embedding = OwnVector(u, e.chunk.chunk_text)
    /\ embeddedChunks[u] # <<>> =>
         \A i \in 1..Len(embeddedChunks[u][1]) :
           LET e == embeddedChunks[u][1][i]
           IN  /\ e.chunk = chunks[u][e.chunk.chunk_index + 1]
               /\ e.embedding = OwnVector(u, e.chunk.chunk_text)
    /\ \A i \in ChunkRowsOf(u) :
         LET row == chunkRows[i]
         IN  /\ row.chunk_text = chunks[u][row.chunk_index + 1].chunk_text
             /\ row.embedding = OwnVector(u, row.chunk_text)

\* batches completed out of order, and rows were persisted whose submitted
\* texts differ
C7_Witness ==
  \E u \in UploadIds :
    /\ Cardinality(ChunkRowsOf(u)) >= 2
    /\ \E i, j \in ChunkRowsOf(u) :
         /\ i < j
         /\ chunkRows[i].chunk_index > chunkRows[j].chunk_index
         /\ chunkRows[i].embedding # chunkRows[j].embedding

\* C8: the i-th element of the list generateEmbeddings returns belongs to the
\* i-th chunk
C8_ResultsInChunkOrder ==
  \A u \in UploadIds :
    embeddedChunks[u] # <<>> =>
      \A i \in 1..Len(embeddedChunks[u][1]) :
        embeddedChunks[u][1][i].chunk.chunk_index = i - 1

\* C9: when processDocumentUpload has settled and no unlink threw, the
\* temporary upload file does not exist
C9_TempFileRemoved ==
  \A u \in UploadIds :
    (Ended(u) /\ failure[u] # "validation" /\ ~unlinkFailed[u]) => ~tempFile[u]

\* an upload with a file that failed in the embedding step, its file removed
C9_Witness ==
  \E u \in UploadIds :
    /\ Ended(u) /\ failure[u] = "provider" /\ docId[u] = 0
    /\ Request(u).file # <<>> /\ ~unlinkFailed[u] /\ ~tempFile[u]

\* C10: the first status written for a validated upload is 'Extracting
\* text...' with progress 10, and 'Upload complete!' is written only after
\* saveDocument, saveChunks and updateDocumentEmbeddingAndText, in this order
C10_StatusOrder ==
  \A u \in UploadIds :
    /\ (req[u] # <<>> /\ Request(u).file # <<>> /\ firstStatus[u] # <<>>) =>
         /\ firstStatus[u][1].status = <<"Extracting text...">>
         /\ firstStatus[u][1].progress = <<10>>
    /\ (uploadStatus[u] # <<>> /\ uploadStatus[u][1].status = <<"Upload complete!">>) =>
         CompleteWritten(u)
    /\ CompleteWritten(u) =>
         /\ storeLog[u] = <<"saveDocument", "saveChunks",
                            "updateDocumentEmbeddingAndText", "Upload complete!">>
         /\ \E i \in DocumentsOf(u) : documents[i].embedding # <<>>
         /\ Cardinality(ChunkRowsOf(u)) = Len(chunkData[u][1])

\* a completed upload with chunk rows
C10_Witness ==
  \E u \in UploadIds :
    /\ uploadStatus[u] # <<>> /\ uploadStatus[u][1].status = <<"Upload complete!">>
    /\ uploadStatus[u][1].progress = <<100>>
    /\ ChunkRowsOf(u) # {}

\* ------------------------------------------------------------ liveness
\* a step of the route handler of upload u, or of one of its batch promises
UploadStep(u) ==
  \/ ValidateFail(u)
  \/ UploadStart(u)
  \/ ExtractFail(u)
  \/ ExtractOk(u)
  \/ \E b \in 1..MaxBatches : BatchComplete(u, b)
  \/ \E b \in 1..MaxBatches : BatchFail(u, b)
  \/ RaceFulfilled(u)
  \/ EmbeddingsRejected(u)
  \/ StoreDocument(u)
  \/ StoreDocumentFails(u)
  \/ DocumentEmbedded(u)
  \/ DocumentEmbeddingFails(u)
  \/ DocumentUpdateFails(u)

\* every call on the PDF parser, the provider and the store returns or
\* throws, and the event loop runs a continuation that is ready
Fairness == \A u \in UploadIds : WF_vars(UploadStep(u))

LiveSpec == Init /\ [][Next]_vars /\ Fairness

\* the job entry shows progress 100 or an error
TerminalJobState(u) ==
  /\ uploadStatus[u] # <<>>
  /\ \/ uploadStatus[u][1].progress = <<100>>
     \/ uploadStatus[u][1].error # <<>>

\* C11: every upload request that has arrived and is not handled yet leads to
\* a state in which its job entry is terminal (progress 100 or an error recorded) and its HTTP
\* response was sent
C11_UploadTerminates ==
  \A u \in UploadIds :
    (req[u] # <<>> /\ pc[u] = "idle") ~> (TerminalJobState(u) /\ res[u] # <<>>)

\* an upload that went through every stage and was answered with 200 after
\* batches settled out of order
C11_Witness ==
  \E u \in UploadIds :
    /\ Ended(u) /\ res[u] # <<>> /\ res[u][1].code = 200
    /\ TerminalJobState(u)
    /\ Len(bstate[u]) >= 2
    /\ results[u] # <<>> /\ results[u][1].chunk.chunk_index # 0

\* ============================================ the status map on its own
\* direct calls of updateUploadStatus and getUploadStatus, in any order, from
\* the empty map of a server that has just started
pipelineVars == <<req, pc, provider, tempFile, unlinkFailed, fullText, chunks, batches,
                  bstate, berr, results, processedChunks, idx, pool, awaited,
                  embeddedChunks, chunkData, docId, documents, chunkRows, lastDocId,
                  res, storeLog, firstStatus, failure, lastRead>>

\* the updates the upload pipeline passes to updateUploadStatus
SamplePartials ==
  { StatusExtracting, StatusEmbedded(1, 2), StatusComplete,
    StatusError(<<"Failed to process document">>) }

UpdateStatus(id, partial) ==
  /\ uploadStatus' = updateUploadStatus(uploadStatus, id, partial)
  /\ lastUpdate' = <<[id |-> id, partial |-> partial]>>
  /\ UNCHANGED <<pipelineVars, returned, ragQuery, chatVars, chunked, textChunker, generated, webClient>>

GetStatus(id) ==
  /\ returned' = <<[id |-> id, value |-> getUploadStatus(uploadStatus, id)]>>
  /\ UNCHANGED <<pipelineVars, uploadStatus, lastUpdate, ragQuery, chatVars, chunked, textChunker, generated, webClient>>

StatusInit ==
  /\ req = [u \in UploadIds |-> <<>>]
  /\ InitCommon

StatusNext ==
  \/ \E id \in UploadIds : \E partial \in SamplePartials : UpdateStatus(id, partial)
  \/ \E id \in StatusIds \cup InheritedKeys : GetStatus(id)

StatusSpec == StatusInit /\ [][StatusNext]_vars

\* C12: a call getUploadStatus(id) for an id that never had a status written
\* returns {status: 'Unknown upload', progress: 0} and leaves the map as it was
C12_UnknownLookupIsPlaceholder ==
  [][\A id \in StatusIds \cup InheritedKeys :
       (returned' # returned /\ returned'[1].id = id
          /\ (id \in DOMAIN uploadStatus => uploadStatus[id] = <<>>)) =>
         /\ returned'[1].value.status = <<"Unknown upload">>
         /\ returned'[1].value.progress = <<0>>
         /\ \A f \in Fields \ {"status", "progress"} : returned'[1].value[f] = <<>>
         /\ uploadStatus' = uploadStatus]_vars

\* C13: updateUploadStatus(id, partial) gives every field present in partial
\* the value of partial and leaves every other field of the entry as it was
C13_UpdateChangesNamedFieldsOnly ==
  [][(lastUpdate' # <<>> /\ (lastUpdate' # lastUpdate \/ uploadStatus' # uploadStatus)) =>
       LET id == lastUpdate'[1].id
           partial == lastUpdate'[1].partial
           old == IF uploadStatus[id] = <<>> THEN NoFields ELSE uploadStatus[id][1]
       IN  /\ uploadStatus'[id] # <<>>
           /\ \A f \in Fields :
                uploadStatus'[id][1][f] = IF partial[f] # <<>> THEN partial[f] ELSE old[f]]_vars

\* an error recorded earlier and the chunk counters are still in the entry
\* after a later update that names neither
C13_Witness ==
  \E id \in UploadIds :
    /\ uploadStatus[id] # <<>>
    /\ lastUpdate # <<>> /\ lastUpdate[1].id = id /\ lastUpdate[1].partial = StatusComplete
    /\ uploadStatus[id][1].status = <<"Upload complete!">>
    /\ uploadStatus[id][1].error = <<"Failed to process document">>
    /\ uploadStatus[id][1].chunk = <<1>>
    /\ uploadStatus[id][1].totalChunks = <<2>>

\* ===================================================== failed uploads
\* no batch was started, no document-level embedding was asked for
NoEmbeddingRequest(u) ==
  /\ \A b \in 1..Len(bstate[u]) : bstate[u][b] = "unstarted"
  /\ storeLog[u] = <<>>
  /\ embeddedChunks[u] = <<>>

NothingPersisted(u) == docId[u] = 0 /\ DocumentsOf(u) = {} /\ ChunkRowsOf(u) = {}

\* the job entry is marked failed with this message
MarkedFailed(u, message) ==
  /\ uploadStatus[u] # <<>>
  /\ uploadStatus[u][1].status = <<"Error">>
  /\ uploadStatus[u][1].error = message

\* C14, as stated: an upload whose text extraction failed is marked failed
\* with the message "Invalid or corrupted document", answered with 400, and
\* neither asked for an embedding nor created a Document
C14_ExtractionFailureAsStated ==
  \A u \in UploadIds :
    (Ended(u) /\ failure[u] = "extraction") =>
      /\ MarkedFailed(u, <<"Invalid or corrupted document">>)
      /\ res[u][1].code = 400
      /\ NoEmbeddingRequest(u)
      /\ NothingPersisted(u)

\* C14, amended: the same, the message being the one handleUploadError
\* writes, "Invalid PDF file or corrupted document", also sent in the response
C14_ExtractionFailure ==
  \A u \in UploadIds :
    (Ended(u) /\ failure[u] = "extraction") =>
      /\ MarkedFailed(u, <<"Invalid PDF file or corrupted document">>)
      /\ res[u][1].code = 400
      /\ res[u][1].error = <<"Invalid PDF file or corrupted document">>
      /\ NoEmbeddingRequest(u)
      /\ NothingPersisted(u)

\* an upload of an unparseable file was answered
C14_Witness ==
  \E u \in UploadIds :
    /\ Ended(u) /\ failure[u] = "extraction"
    /\ ~File(u).parseable
    /\ res[u] # <<>> /\ res[u][1].code = 400
    /\ firstStatus[u] = <<StatusExtracting>>

\* ------------------------------------- provider errors with any text
\* getOllamaEmbedding throws 'Ollama embedding failed: ' + errorText, where
\* errorText is the body of the failed response: any text, such as these
RawProviderErrors ==
  { <<"Ollama embedding failed: ", "Failed to extract text">>,
    <<"Ollama embedding failed: ", "No file uploaded">> }

\* a request of batch b fails with such a body
BatchFailRaw(u, b) ==
  /\ b \in 1..Len(bstate[u])
  /\ bstate[u][b] = "pending"
  /\ provider[u] = "ollama"
  /\ \E message \in RawProviderErrors :
       LET bst == [bstate[u] EXCEPT ![b] = "rejected"]
       IN  /\ bstate' = [bstate EXCEPT ![u] = bst]
           /\ berr' = [berr EXCEPT ![u][b] = message]
           /\ awaited' = [awaited EXCEPT ![u] =
                            Notify(@, pc[u], pool[u], b, "rejected", message, bst)]
  /\ UNCHANGED <<req, outsideUpload, pc, provider, tempFile, unlinkFailed, uploadStatus,
                 fullText, chunks, batches, results, processedChunks, idx, pool,
                 embeddedChunks, storeVars, res, firstStatus, failure, lastRead>>

RawErrorNext ==
  \/ Next
  \/ \E u \in UploadIds : \E b \in 1..MaxBatches : BatchFailRaw(u, b)

RawErrorSpec == Init /\ [][RawErrorNext]_vars

\* C15: a failed upload is answered with 400 when the file is missing or the
\* PDF cannot be parsed, with 500 when a provider or storage call failed, and
\* the body carries an error
C15_StatusCodeByFailure ==
  \A u \in UploadIds :
    (Ended(u) /\ failure[u] # "none") =>
      /\ res[u] # <<>>
      /\ res[u][1].error # <<>>
      /\ res[u][1].code = IF failure[u] \in {"validation", "extraction"} THEN 400 ELSE 500

\* C16: a request whose embeddingProvider is neither 'openai' nor 'ollama'
\* is, once the route has taken it up, answered with 400 without any
\* extraction, embedding or storage step
C16_UnsupportedProviderRejected ==
  \A u \in UploadIds :
    (/\ req[u] # <<>>
     /\ Request(u).embeddingProvider \notin {"openai", "ollama"}
     /\ pc[u] # "idle") =>
      /\ Ended(u)
      /\ res[u][1].code = 400
      /\ fullText[u] = <<>> /\ chunks[u] = <<>>
      /\ NoEmbeddingRequest(u)
      /\ NothingPersisted(u)

\* ------------------------------------------- malformed provider answers
\* a vector of the provider's model for the text, one component short of the
\* model's dimension
ShortVector(prov, text) ==
  [model |-> EmbeddingModel(prov), of |-> text, missing |-> 1]

Malformed(embedding) == "missing" \in DOMAIN embedding

\* processBatch: the embeddings as the provider returns them, the vector of
\* the first text having the wrong length
BatchEmbeddingsShort(prov, batch) ==
  [i \in 1..Len(batch) |->
     IF i = 1 THEN ShortVector(prov, EmbeddingInput(batch[i]))
     ELSE Vector(prov, EmbeddingInput(batch[i]))]

\* the provider answers the requests of batch b, one vector being too short
\* (the first such answer of the upload): processBatch stores what it got,
\* updates the progress and is fulfilled
BatchCompleteMalformed(u, b) ==
  /\ b \in 1..Len(bstate[u])
  /\ bstate[u][b] = "pending"
  /\ \A i \in 1..Len(results[u]) : ~Malformed(results[u][i].embedding)
  /\ LET batch == batches[u][b]
         processed == processedChunks[u] + Len(batch)
         bst == [bstate[u] EXCEPT ![b] = "fulfilled"]
     IN  /\ results' = [results EXCEPT ![u] =
                          @ \o StoreResults(batch, BatchEmbeddingsShort(provider[u], batch))]
         /\ processedChunks' = [processedChunks EXCEPT ![u] = processed]
         /\ WriteStatus(u, StatusEmbedded(processed, Len(chunks[u])))
         /\ bstate' = [bstate EXCEPT ![u] = bst]
         /\ awaited' = [awaited EXCEPT ![u] =
                          Notify(@, pc[u], pool[u], b, "fulfilled", <<>>, bst)]
  /\ UNCHANGED <<req, outsideUpload, pc, provider, tempFile, unlinkFailed, fullText,
                 chunks, batches, berr, idx, pool, embeddedChunks, storeVars, res,
                 failure, lastRead>>

MalformedNext ==
  \/ Next
  \/ \E u \in UploadIds : \E b \in 1..MaxBatches : BatchCompleteMalformed(u, b)

MalformedSpec == Init /\ [][MalformedNext]_vars

\* C17: an upload that ended after generateEmbeddings returned a list with a
\* vector of the wrong length (no provider request and no store call having
\* failed) has an error recorded, persisted no Document and no Chunk, and its
\* temporary file is gone unless the unlink threw
C17_MalformedVectorFailsUpload ==
  \A u \in UploadIds :
    (/\ Ended(u)
     /\ failure[u] = "none"
     /\ embeddedChunks[u] # <<>>
     /\ \E i \in 1..Len(embeddedChunks[u][1]) :
          Malformed(embeddedChunks[u][1][i].embedding)) =>
      /\ ErrorRecorded(u)
      /\ NothingPersisted(u)
      /\ ~unlinkFailed[u] => ~tempFile[u]

\* C18: every Document row in the store has at least one Chunk row
C18_DocumentHasChunk ==
  \A i \in 1..Len(documents) :
    \E j \in 1..Len(chunkRows) : chunkRows[j].document_id = documents[i].id

\* ============================================================ retrieval
\* largest number of chunk rows of a corpus
MaxCorpus == 4

\* RAG_CONFIG; the threshold 0.7 is written in tenths
SIMILARITY_THRESHOLD_TENTHS == 7
FALLBACK_CHUNKS == 3

\* Array.prototype.slice(0, end): a negative end counts from the end
ArraySlice(arr, end) ==
  SubSeq(arr, 1, IF end < 0 THEN Max(Len(arr) + end, 0) ELSE Min(end, Len(arr)))

RECURSIVE SumSeq(_)
SumSeq(s) == IF s = <<>> THEN 0 ELSE Head(s) + SumSeq(Tail(s))

\* a similarity is NaN, or the real number dot / sqrt(norms)
NaN == [nan |-> TRUE, dot |-> 0, norms |-> 0]

\* cosineSimilarity(a, b) of the server: the loop runs over a; b[i] past the
\* end of b is undefined and makes every sum NaN; components of b past the
\* end of a are not looked at; with a zero norm the quotient is 0 / 0
cosineSimilarity(a, b) ==
  IF Len(b) < Len(a) THEN NaN
  ELSE LET dot == SumSeq([i \in 1..Len(a) |-> a[i] * b[i]])
           normA == SumSeq([i \in 1..Len(a) |-> a[i] * a[i]])
           normB == SumSeq([i \in 1..Len(a) |-> b[i] * b[i]])
       IN  IF normA * normB = 0 THEN NaN
           ELSE [nan |-> FALSE, dot |-> dot, norms |-> normA * normB]

\* sign(dot) * dot^2 / norms grows with dot / sqrt(norms)
Signed(sim) == (IF sim.dot < 0 THEN 0 - 1 ELSE 1) * sim.dot * sim.dot

\* x > y for two similarities; false when one of them is NaN
SimGreater(x, y) ==
  /\ ~x.nan /\ ~y.nan
  /\ Signed(x) * y.norms > Signed(y) * x.norms

\* a chunk that clears a threshold of one half
MeetsThresholdHalf(sim) ==
  /\ ~sim.nan
  /\ sim.dot > 0
  /\ 4 * sim.dot * sim.dot >= sim.norms

\* chunk.similarity >= RAG_CONFIG.SIMILARITY_THRESHOLD; false for NaN
MeetsThreshold(sim) ==
  /\ ~sim.nan
  /\ sim.dot > 0
  /\ 100 * sim.dot * sim.dot >=
       SIMILARITY_THRESHOLD_TENTHS * SIMILARITY_THRESHOLD_TENTHS * sim.norms

\* sort((a, b) => b.similarity - a.similarity) of a list without NaN: the
\* sort is stable, x goes before the first element with a smaller similarity
RECURSIVE InsertDescending(_, _)
InsertDescending(sorted, x) ==
  IF sorted = <<>> THEN <<x>>
  ELSE IF SimGreater(x.similarity, Head(sorted).similarity) THEN <<x>> \o sorted
  ELSE <<Head(sorted)>> \o InsertDescending(Tail(sorted), x)

RECURSIVE SortDescending(_)
SortDescending(list) ==
  IF list = <<>> THEN <<>>
  ELSE InsertDescending(SortDescending(SubSeq(list, 1, Len(list) - 1)), list[Len(list)])

Orderings(list) ==
  { [i \in 1..Len(list) |-> list[p[i]]] :
      p \in { q \in [1..Len(list) -> 1..Len(list)] :
                \A i, j \in 1..Len(list) : i # j => q[i] # q[j] } }

\* with a NaN similarity the comparator is not consistent (NaN counts as
\* equal to everything) and the order is implementation-defined
SortOutcomes(list) ==
  IF \E i \in 1..Len(list) : list[i].similarity.nan THEN Orderings(list)
  ELSE {SortDescending(list)}

\* documentDb.getAllChunks(): every chunk row of the store
getAllChunks(rows) == rows

\* scoredChunks of processRAGQuery
ScoredChunks(rows, queryEmbedding) ==
  [i \in 1..Len(rows) |->
     [document_id |-> rows[i].document_id, chunk_index |-> rows[i].chunk_index,
      chunk_text |-> rows[i].chunk_text, embedding |-> rows[i].embedding,
      similarity |-> cosineSimilarity(queryEmbedding, rows[i].embedding)]]

FilteredChunks(scored) == SelectSeq(scored, LAMBDA c : MeetsThreshold(c.similarity))

\* processRAGQuery after the query embedding arrived: the lists it can return
\* and the branch taken
RAGOutcomes(rows, queryEmbedding, maxChunks) ==
  LET scored == ScoredChunks(getAllChunks(rows), queryEmbedding)
      filtered == FilteredChunks(scored)
  IN  IF Len(filtered) = 0
        THEN { [path |-> "fallback", chunks |-> ArraySlice(s, FALLBACK_CHUNKS)] :
                 s \in SortOutcomes(scored) }
        ELSE { [path |-> "threshold", chunks |-> ArraySlice(s, maxChunks)] :
                 s \in SortOutcomes(filtered) }

\* embeddings of stored chunks and of queries: a unit vector, vectors at
\* cosine 0.8 and 0.6 of it, a longer vector (another embedding model) whose
\* first two components are at cosine 0 of it, a shorter vector
SampleEmbeddings == { <<1, 0>>, <<4, 3>>, <<3, 4>>, <<0, 1, 5>>, <<1>> }
\* embeddings of queries: the unit vector, another vector, a zero vector
SampleQueries == { <<1, 0>>, <<3, 4>>, <<0, 0>> }
\* maxChunks of a request: validateChatRequest takes any value of the body
SampleMaxChunks == { 0 - 1, 1, 5 }

\* the i-th row of a corpus: two chunks of document 1, then chunks of document 2
CorpusRow(i, embedding) ==
  [document_id |-> IF i <= 2 THEN 1 ELSE 2,
   chunk_index |-> IF i <= 2 THEN i - 1 ELSE i - 3,
   chunk_text |-> Str("a", i),
   embedding |-> embedding]

SampleCorpora ==
  UNION { { [i \in 1..n |-> CorpusRow(i, es[i])] : es \in [1..n -> SampleEmbeddings] } :
          n \in 0..MaxCorpus }

CorpusDocuments(rows) ==
  [d \in 1..(IF Len(rows) = 0 THEN 0 ELSE rows[Len(rows)].document_id) |->
     [id |-> d, title |-> "doc", originalname |-> "doc.pdf",
      embedding |-> <<rows[1].embedding>>, text |-> Str("a", d)]]

\* a server whose store holds a corpus and that gets one query
RetrievalInit ==
  /\ req = [u \in UploadIds |-> <<>>]
  /\ InitPipeline
  /\ \E rows \in SampleCorpora :
       /\ chunkRows = rows
       /\ documents = CorpusDocuments(rows)
       /\ lastDocId = Len(CorpusDocuments(rows))

retrievalFrame == <<pipelineVars, uploadStatus, lastUpdate, returned, chatVars, chunked, textChunker, generated, webClient>>

\* processRAGQuery(message, maxChunks, ...): getOllamaEmbedding returns the
\* embedding of the message, the chunks are scored and selected
ProcessRAGQuery ==
  /\ ragQuery = <<>>
  /\ \E queryEmbedding \in SampleQueries : \E maxChunks \in SampleMaxChunks :
     \E out \in RAGOutcomes(chunkRows, queryEmbedding, maxChunks) :
       ragQuery' = <<[queryEmbedding |-> queryEmbedding, maxChunks |-> maxChunks,
                      path |-> out.path, chunks |-> out.chunks]>>
  /\ UNCHANGED retrievalFrame

\* a catch that returns the stored chunks as they are
RAGQueryEmbeddingFailsUnscored ==
  /\ ragQuery = <<>>
  /\ \E maxChunks \in SampleMaxChunks :
       ragQuery' = <<[queryEmbedding |-> <<>>, maxChunks |-> maxChunks,
                      path |-> "error", chunks |-> getAllChunks(chunkRows)]>>
  /\ UNCHANGED retrievalFrame

\* getOllamaEmbedding throws: the catch returns []
RAGQueryEmbeddingFails ==
  /\ ragQuery = <<>>
  /\ \E maxChunks \in SampleMaxChunks :
       ragQuery' = <<[queryEmbedding |-> <<>>, maxChunks |-> maxChunks,
                      path |-> "error", chunks |-> <<>>]>>
  /\ UNCHANGED retrievalFrame

RetrievalNext ==
  \/ ProcessRAGQuery
  \/ RAGQueryEmbeddingFails

RetrievalSpec == RetrievalInit /\ [][RetrievalNext]_vars

\* C19: processRAGQuery returns at most maxChunks chunks
C19_AtMostMaxChunks ==
  ragQuery # <<>> => Len(ragQuery[1].chunks) <= ragQuery[1].maxChunks

\* a similarity of at least 0.7
ClearsSevenTenths(sim) ==
  ~sim.nan /\ sim.dot > 0 /\ 100 * sim.dot * sim.dot >= 49 * sim.norms

\* C20: a result of processRAGQuery is made of chunks of the corpus that all
\* have a similarity of at least 0.7, or it is the fallback result, which is
\* produced exactly when no chunk of the corpus has one; no result holds
\* chunks of both kinds
C20_ThresholdedOrFallback ==
  (ragQuery # <<>> /\ ragQuery[1].path # "error") =>
    LET call == ragQuery[1]
        inCorpus == {i \in 1..Len(chunkRows) :
                       ClearsSevenTenths(cosineSimilarity(call.queryEmbedding,
                                                          chunkRows[i].embedding))}
        clearing == {i \in 1..Len(call.chunks) : ClearsSevenTenths(call.chunks[i].similarity)}
    IN  /\ call.path \in {"threshold", "fallback"}
        /\ call.path = "fallback" <=> inCorpus = {}
        /\ call.path = "threshold" => clearing = 1..Len(call.chunks)
        /\ clearing = {} \/ clearing = 1..Len(call.chunks)
        /\ \A i \in 1..Len(call.chunks) :
             \E j \in 1..Len(chunkRows) :
               /\ call.chunks[i].document_id = chunkRows[j].document_id
               /\ call.chunks[i].chunk_index = chunkRows[j].chunk_index
               /\ call.chunks[i].similarity =
                    cosineSimilarity(call.queryEmbedding, chunkRows[j].embedding)

\* a corpus of four chunks, two of them at 0.7 or more, one below, one with
\* a NaN similarity: the two are returned
C20_Witness ==
  /\ ragQuery # <<>>
  /\ ragQuery[1].path = "threshold"
  /\ Len(chunkRows) = 4
  /\ Len(ragQuery[1].chunks) = 2
  /\ ragQuery[1].maxChunks = 5
  /\ \E i \in 1..4 : cosineSimilarity(ragQuery[1].queryEmbedding, chunkRows[i].embedding).nan
  /\ \E i \in 1..4 :
       LET sim == cosineSimilarity(ragQuery[1].queryEmbedding, chunkRows[i].embedding)
       IN  ~sim.nan /\ sim.dot > 0 /\ ~ClearsSevenTenths(sim)

\* the chunks of the corpus that a result leaves out
LeftOut(call) ==
  LET scored == ScoredChunks(chunkRows, call.queryEmbedding)
  IN  { i \in 1..Len(scored) :
          \A j \in 1..Len(call.chunks) :
            \/ call.chunks[j].document_id # scored[i].document_id
            \/ call.chunks[j].chunk_index # scored[i].chunk_index }

\* C21: when no chunk of the corpus has a similarity of at least 0.7 and the
\* corpus holds at least 3 chunks, the result holds exactly 3 chunks and no
\* chunk left out has a higher similarity than a returned one; a query on a
\* non-empty corpus whose embedding succeeded returns at least one chunk
C21_FallbackTopThree ==
  (ragQuery # <<>> /\ ragQuery[1].path # "error") =>
    LET call == ragQuery[1]
        scored == ScoredChunks(chunkRows, call.queryEmbedding)
        noneClears == \A i \in 1..Len(scored) : ~ClearsSevenTenths(scored[i].similarity)
    IN  /\ (noneClears /\ Len(chunkRows) >= 3) =>
              /\ Len(call.chunks) = 3
              /\ \A i \in LeftOut(call) : \A j \in 1..Len(call.chunks) :
                   ~SimGreater(scored[i].similarity, call.chunks[j].similarity)
        /\ Len(chunkRows) > 0 => call.chunks # <<>>

\* the rows of the corpus that a result returns, in the order of the result
RowOf(chunk) ==
  CHOOSE r \in 1..Len(chunkRows) :
    /\ chunkRows[r].document_id = chunk.document_id
    /\ chunkRows[r].chunk_index = chunk.chunk_index

\* C22: the chunks of a result are in descending order of similarity; a
\* thresholded result holds the maxChunks highest-scoring chunks of those
\* with a similarity of at least 0.7; chunks of equal similarity keep the
\* order of their index in the corpus
C22_DescendingTopKStable ==
  (ragQuery # <<>> /\ ragQuery[1].path # "error") =>
    LET call == ragQuery[1]
        n == Len(call.chunks)
        scored == ScoredChunks(chunkRows, call.queryEmbedding)
        clearing == {i \in 1..Len(scored) : ClearsSevenTenths(scored[i].similarity)}
    IN  /\ \A i, j \in 1..n :
             i < j => ~SimGreater(call.chunks[j].similarity, call.chunks[i].similarity)
        /\ (call.path = "threshold" /\ call.maxChunks >= 0) =>
             /\ n = Min(call.maxChunks, Cardinality(clearing))
             /\ \A i \in LeftOut(call) \cap clearing : \A j \in 1..n :
                  ~SimGreater(scored[i].similarity, call.chunks[j].similarity)
        /\ \A i, j \in 1..n :
             (/\ i < j
              /\ ~call.chunks[i].similarity.nan
              /\ ~call.chunks[j].similarity.nan
              /\ ~SimGreater(call.chunks[i].similarity, call.chunks[j].similarity)) =>
               RowOf(call.chunks[i]) < RowOf(call.chunks[j])

\* a vector of norm zero
ZeroNorm(v) == \A i \in 1..Len(v) : v[i] = 0

\* C23: the similarity computed for a returned chunk is 0, and not NaN, when
\* the query embedding or the chunk's embedding has norm zero, and is 1 when
\* the chunk's embedding is the query embedding and is not zero
C23_ZeroNormGivesZero ==
  (ragQuery # <<>> /\ ragQuery[1].path # "error") =>
    \A i \in 1..Len(ragQuery[1].chunks) :
      LET a == ragQuery[1].queryEmbedding
          b == ragQuery[1].chunks[i].embedding
          sim == ragQuery[1].chunks[i].similarity
      IN  /\ (ZeroNorm(a) \/ ZeroNorm(b)) => (~sim.nan /\ sim.dot = 0)
          /\ (a = b /\ ~ZeroNorm(a)) =>
               (~sim.nan /\ sim.dot > 0 /\ sim.dot * sim.dot = sim.norms)

\* the rows of the corpus whose embedding has the length of the query's
MatchingRows(queryEmbedding) ==
  SelectSeq(chunkRows, LAMBDA row : Len(row.embedding) = Len(queryEmbedding))

\* C24: no chunk whose embedding has another length than the query embedding
\* is returned, and the result is the one the query has on the chunks of
\* matching length alone
C24_MismatchedDimensionSkipped ==
  (ragQuery # <<>> /\ ragQuery[1].path # "error") =>
    LET call == ragQuery[1]
    IN  /\ \A i \in 1..Len(call.chunks) :
             Len(call.chunks[i].embedding) = Len(call.queryEmbedding)
        /\ \E out \in RAGOutcomes(MatchingRows(call.queryEmbedding),
                                  call.queryEmbedding, call.maxChunks) :
             out.chunks = call.chunks

\* ================================================================= chat
\* bodies of POST /api/chat; <<>> is a field the body does not have
SampleChatBodies ==
  [message : {<<>>, <<"">>, <<"question">>},
   model : {<<>>, <<"">>, <<"openrouter">>, <<"openai">>, <<"ollama">>, <<"gemini">>},
   useRag : {<<>>, <<FALSE>>, <<TRUE>>},
   maxChunks : {<<>>, <<0>>, <<2>>}]

\* validateChatRequest(body): the request, or the message of the error thrown
validateChatRequest(body) ==
  LET model == IF body.model = <<>> THEN "openai" ELSE body.model[1]
      useRag == IF body.useRag = <<>> THEN FALSE ELSE body.useRag[1]
      maxChunks == IF body.maxChunks = <<>> THEN 5 ELSE body.maxChunks[1]
  IN  IF body.message = <<>> \/ body.message[1] = ""
        THEN [ok |-> FALSE, error |-> <<"Message is ", "required", " and must be a string">>]
      ELSE IF model # "" /\ model \notin {"openrouter", "openai", "ollama"}
        THEN [ok |-> FALSE, error |-> <<"Invalid model", " specified">>]
      ELSE [ok |-> TRUE,
            request |-> [message |-> body.message[1], model |-> model,
                         useRag |-> useRag, maxChunks |-> maxChunks]]

\* handleChatError
handleChatError(message) ==
  IF Includes(message, "required") \/ Includes(message, "Invalid model")
    THEN [status |-> 400, error |-> <<message>>, response |-> <<>>, retrievedChunks |-> <<>>]
    ELSE [status |-> 500, error |-> <<"Failed to generate response">>,
          response |-> <<>>, retrievedChunks |-> <<>>]

\* createRAGPrompt: the instructions, then every chunk text as a numbered
\* source, then the question
createRAGPrompt(message, ragChunks) ==
  [sources |-> [i \in 1..Len(ragChunks) |-> ragChunks[i].chunk_text], question |-> message]

\* generateResponse up to the call of the provider: the text it passes to
\* the provider of the model, or the error it throws
generateResponse(request, ragChunks) ==
  LET prompt == IF request.useRag /\ Len(ragChunks) > 0
                  THEN createRAGPrompt(request.message, ragChunks)
                  ELSE [sources |-> <<>>, question |-> request.message]
  IN  CASE request.model \in {"openrouter", "ollama"} ->
             [ok |-> TRUE, provider |-> request.model, prompt |-> prompt]
        [] request.model = "openai" ->
             [ok |-> TRUE, provider |-> "openai",
              prompt |-> [sources |-> <<>>, question |-> request.message]]
        [] OTHER -> [ok |-> FALSE, error |-> <<"Unsupported model: ", request.model>>]

\* formatChatResponse, sent with status 200
formatChatResponse(response, ragChunks, useRag) ==
  [status |-> 200, error |-> <<>>, response |-> <<response>>,
   retrievedChunks |->
     IF useRag /\ Len(ragChunks) > 0
       THEN << [i \in 1..Len(ragChunks) |->
                  [documentId |-> ragChunks[i].document_id,
                   chunkIndex |-> ragChunks[i].chunk_index,
                   text |-> ragChunks[i].chunk_text,
                   similarity |-> ragChunks[i].similarity]] >>
       ELSE <<>>]

\* what fs.writeFileSync can do: write the file, throw leaving the file as
\* it was, or throw after the file was opened for writing and cut
WriteOutcomes == {"written", "unchanged", "truncated"}

\* logRagUsage of the server on the log file: a file that does not exist or
\* does not parse counts as an empty log; an error of the write is swallowed
logRagUsage(file, documentId, chunkIndexes, response, timestamp, outcome) ==
  LET log == IF file # <<>> /\ file[1].parses THEN file[1].entries ELSE <<>>
      newEntry == [documentId |-> documentId, chunkIndexes |-> chunkIndexes,
                   response |-> response, timestamp |-> timestamp]
  IN  CASE outcome = "written" -> <<[parses |-> TRUE, entries |-> Append(log, newEntry)]>>
        [] outcome = "truncated" -> <<[parses |-> FALSE, entries |-> <<>>]>>
        [] OTHER -> file

\* logRAGUsage of the chat service
logRAGUsage(file, ragChunks, response, timestamp, outcome) ==
  IF Len(ragChunks) = 0 THEN file
  ELSE logRagUsage(file, ragChunks[1].document_id,
                   [i \in 1..Len(ragChunks) |->
                      [chunk_index |-> ragChunks[i].chunk_index,
                       chunk_text |-> ragChunks[i].chunk_text]],
                   response, timestamp, outcome)

\* the condition under which the route calls processRAGQuery
RetrieverInvoked(request) ==
  request.useRag /\ request.model \in {"gemini", "deepseek", "local"}

\* what processRAGQuery(message, maxChunks || 5, ...) can return
RAGResults(rows, maxChunks) ==
  {<<>>} \cup
  UNION { { out.chunks : out \in RAGOutcomes(rows, q, IF maxChunks = 0 THEN 5 ELSE maxChunks) } :
          q \in SampleQueries }

\* the store of the chat server: a chunk of document 1 and one of document 2
ChatCorpus == << CorpusRow(2, <<1, 0>>), CorpusRow(3, <<4, 3>>) >>

ChatInit ==
  /\ req = [u \in UploadIds |-> <<>>]
  /\ InitPipeline
  /\ chunkRows = ChatCorpus
  /\ documents = CorpusDocuments(ChatCorpus)
  /\ lastDocId = Len(CorpusDocuments(ChatCorpus))

chatFrame == <<pipelineVars, uploadStatus, lastUpdate, returned, ragQuery, logCall, chunked, textChunker, generated, webClient>>

\* POST /api/chat up to the call of the generation provider: validation,
\* retrieval if the route asks for it, the prompt
ChatArrives(body) ==
  /\ chat = <<>>
  /\ LET v == validateChatRequest(body)
     IN  IF ~v.ok
           THEN chat' = <<[body |-> body, pc |-> "done", accepted |-> FALSE, request |-> <<>>,
                           retrieverCalled |-> FALSE, ragChunks |-> <<>>,
                           generation |-> <<>>, reply |-> <<handleChatError(v.error)>>]>>
           ELSE \E ragChunks \in IF RetrieverInvoked(v.request)
                                   THEN RAGResults(chunkRows, v.request.maxChunks)
                                   ELSE {<<>>} :
                  LET g == generateResponse(v.request, ragChunks)
                  IN  chat' = <<[body |-> body, pc |-> IF g.ok THEN "generating" ELSE "done",
                                 accepted |-> TRUE, request |-> <<v.request>>,
                                 retrieverCalled |-> RetrieverInvoked(v.request),
                                 ragChunks |-> ragChunks,
                                 generation |-> IF g.ok THEN <<g>> ELSE <<>>,
                                 reply |-> IF g.ok THEN <<>>
                                           ELSE <<handleChatError(g.error)>>]>>
  /\ UNCHANGED <<chatFrame, ragUsageLog>>

\* the provider answers: usage log, response
ChatGenerated ==
  /\ chat # <<>> /\ chat[1].pc = "generating"
  /\ LET turn == chat[1]
         request == turn.request[1]
         logs == request.useRag /\ Len(turn.ragChunks) > 0
     IN  /\ \E outcome \in IF logs THEN WriteOutcomes ELSE {"unchanged"} :
              ragUsageLog' = IF logs
                               THEN logRAGUsage(ragUsageLog, turn.ragChunks, "answer",
                                                1, outcome)
                               ELSE ragUsageLog
         /\ chat' = <<[turn EXCEPT !.pc = "done",
                                   !.reply = <<formatChatResponse("answer", turn.ragChunks,
                                                                  request.useRag)>>]>>
  /\ UNCHANGED chatFrame

\* the provider call throws
ChatGenerationFails ==
  /\ chat # <<>> /\ chat[1].pc = "generating"
  /\ chat' = <<[chat[1] EXCEPT !.pc = "done",
                               !.reply = <<handleChatError(<<"provider error">>)>>]>>
  /\ UNCHANGED <<chatFrame, ragUsageLog>>

ChatNext ==
  \/ \E body \in SampleChatBodies : ChatArrives(body)
  \/ ChatGenerated
  \/ ChatGenerationFails

ChatSpec == ChatInit /\ [][ChatNext]_vars

\* C25: a chat request that validateChatRequest accepted with useRag true
\* has had processRAGQuery invoked once its generation step has begun, and a
\* response to a request whose retrieval returned chunks carries them in
\* retrievedChunks
C25_RetrieverBeforeGeneration ==
  (chat # <<>> /\ chat[1].accepted /\ chat[1].request[1].useRag) =>
    /\ chat[1].retrieverCalled
    /\ (chat[1].reply # <<>> /\ chat[1].reply[1].status = 200 /\ chat[1].ragChunks # <<>>) =>
         /\ chat[1].reply[1].retrievedChunks # <<>>
         /\ Len(chat[1].reply[1].retrievedChunks[1]) = Len(chat[1].ragChunks)

\* ------------------------------------------------------------ usage log
\* largest number of calls of logRAGUsage
MaxLogCalls == 3

\* lists processRAGQuery returns on the store of the chat server
SampleResults == RAGResults(ChatCorpus, 1) \cup RAGResults(ChatCorpus, 5)

\* logRAGUsage(ragChunks, response, logRagUsage), called as the chat route
\* calls it; Date.now() is the number of the call
LogUsage ==
  LET n == IF logCall = <<>> THEN 0 ELSE logCall[1].timestamp
  IN  /\ n < MaxLogCalls
      /\ \E ragChunks \in SampleResults :
         \E outcome \in IF ragChunks = <<>> THEN {"unchanged"} ELSE WriteOutcomes :
           /\ ragUsageLog' = logRAGUsage(ragUsageLog, ragChunks, "answer", n + 1, outcome)
           /\ logCall' = <<[ragChunks |-> ragChunks, response |-> "answer",
                            timestamp |-> n + 1, outcome |-> outcome]>>
      /\ UNCHANGED <<pipelineVars, uploadStatus, lastUpdate, returned, ragQuery, chat, chunked, textChunker, generated, webClient>>

UsageLogNext == LogUsage

UsageLogSpec == ChatInit /\ [][UsageLogNext]_vars

\* the entries that can be read from the log file
LogEntries(file) == IF file = <<>> THEN <<>> ELSE file[1].entries

\* C26: a call of logRAGUsage with at least one chunk appends exactly one
\* entry to the usage log, whose documentId is the document_id of the first
\* chunk and which lists every chunk; no call removes or alters an entry
\* written earlier
C26_UsageLogAppendOnly ==
  [][logCall' # logCall =>
       LET call == logCall'[1]
           before == LogEntries(ragUsageLog)
           after == LogEntries(ragUsageLog')
       IN  /\ Len(after) >= Len(before)
           /\ SubSeq(after, 1, Len(before)) = before
           /\ Len(call.ragChunks) = 0 => after = before
           /\ Len(call.ragChunks) > 0 =>
                /\ Len(after) = Len(before) + 1
                /\ after[Len(after)].documentId = call.ragChunks[1].document_id
                /\ after[Len(after)].response = call.response
                /\ Len(after[Len(after)].chunkIndexes) = Len(call.ragChunks)
                /\ \A i \in 1..Len(call.ragChunks) :
                     /\ after[Len(after)].chunkIndexes[i].chunk_index =
                          call.ragChunks[i].chunk_index
                     /\ after[Len(after)].chunkIndexes[i].chunk_text =
                          call.ragChunks[i].chunk_text]_vars

\* ============================================================== chunker
\* largest number of pages of a document passed to createDocumentChunks
MaxPages == 3

\* page texts: no text, blanks only, a short page after blanks, a page of
\* one window exactly, pages of less than CHUNK_SIZE characters with text or
\* with blanks past the first window, a page of three windows the second of
\* which is blank
SamplePageTexts ==
  { <<>>, Str(" ", 3), Str(" ", 2) \o Str("b", 50),
    Str("a", CHUNK_SIZE - CHUNK_OVERLAP),
    Str("a", 1400),
    Str("b", CHUNK_SIZE - CHUNK_OVERLAP) \o Str(" ", 100),
    Str("a", CHUNK_SIZE - CHUNK_OVERLAP) \o Str(" ", CHUNK_SIZE) \o Str("b", 100) }

SamplePageLists ==
  UNION { [1..n -> SamplePageTexts] : n \in 0..MaxPages }

chunkerFrame == <<pipelineVars, uploadStatus, lastUpdate, returned, ragQuery, chatVars, textChunker, generated, webClient>>

\* a direct call createDocumentChunks(pages)
CreateDocumentChunks ==
  /\ chunked = <<>>
  /\ \E pages \in SamplePageLists :
       chunked' = <<[pages |-> pages, allChunks |-> createDocumentChunks(pages)]>>
  /\ UNCHANGED chunkerFrame

ChunkerInit ==
  /\ req = [u \in UploadIds |-> <<>>]
  /\ InitCommon

ChunkerNext == CreateDocumentChunks

ChunkerSpec == ChunkerInit /\ [][ChunkerNext]_vars

\* a page whose text is not empty after trimming and is shorter than CHUNK_SIZE
ShortPage(pageText) == TrimNonEmpty(pageText) /\ TLen(pageText) < CHUNK_SIZE

\* C27: a document whose pages are all non-empty after trimming and shorter
\* than CHUNK_SIZE characters yields one chunk per page, the whole page, with
\* the indices 0, 1, 2, ...
C27_ShortPageOneChunk ==
  (chunked # <<>> /\ \A p \in 1..Len(chunked[1].pages) : ShortPage(chunked[1].pages[p])) =>
    /\ Len(chunked[1].allChunks) = Len(chunked[1].pages)
    /\ \A p \in 1..Len(chunked[1].pages) :
         /\ chunked[1].allChunks[p].chunk_text = chunked[1].pages[p]
         /\ chunked[1].allChunks[p].chunk_index = p - 1

\* the chunks that the first p pages of a document yield
ChunksUpTo(pages, p) == createDocumentChunks(SubSeq(pages, 1, p))

\* the texts of the chunks of page p, in order
PageChunkTexts(call, p) ==
  [j \in 1..(Len(ChunksUpTo(call.pages, p)) - Len(ChunksUpTo(call.pages, p - 1))) |->
     call.allChunks[Len(ChunksUpTo(call.pages, p - 1)) + j].chunk_text]

\* the character range [k * (CHUNK_SIZE - CHUNK_OVERLAP), ... + CHUNK_SIZE) of a page
WindowText(pageText, k) ==
  Slice(pageText, k * (CHUNK_SIZE - CHUNK_OVERLAP),
        k * (CHUNK_SIZE - CHUNK_OVERLAP) + CHUNK_SIZE)

\* the positions (from 0) of the characters of a text that are not blanks
TextPositions(t) ==
  UNION { { TLen(SubSeq(t, 1, r - 1)) + d : d \in 0..(t[r].n - 1) } :
          r \in { q \in 1..Len(t) : t[q].c # " " } }

\* C28: no chunk is longer than CHUNK_SIZE; the chunks of a page are windows
\* of the page that start at multiples of CHUNK_SIZE - CHUNK_OVERLAP, in
\* increasing order; every character of a page that is not white space lies
\* in the range of a chunk of the page
C28_WindowsCoverPage ==
  chunked # <<>> =>
    LET call == chunked[1]
    IN  /\ \A j \in 1..Len(call.allChunks) : TLen(call.allChunks[j].chunk_text) <= CHUNK_SIZE
        /\ \A p \in 1..Len(call.pages) :
             LET pageText == call.pages[p]
                 windows == { k \in 0..TLen(pageText) :
                                k * (CHUNK_SIZE - CHUNK_OVERLAP) < TLen(pageText) }
             IN  /\ ChunksUpTo(call.pages, p) =
                      SubSeq(call.allChunks, 1, Len(ChunksUpTo(call.pages, p)))
                 /\ \A texts \in {PageChunkTexts(call, p)} :
                      /\ \E start \in [1..Len(texts) -> windows] :
                           /\ \A j \in 1..Len(texts) :
                                texts[j] = WindowText(pageText, start[j])
                           /\ \A i, j \in 1..Len(texts) : i < j => start[i] < start[j]
                      /\ \A emitted \in { { k \in windows : \E j \in 1..Len(texts) :
                                                texts[j] = WindowText(pageText, k) } } :
                           \A pos \in TextPositions(pageText) :
                             \E k \in emitted :
                               /\ k * (CHUNK_SIZE - CHUNK_OVERLAP) <= pos
                               /\ pos < k * (CHUNK_SIZE - CHUNK_OVERLAP) + CHUNK_SIZE

\* a document of two pages or more, one of them with three windows of which
\* the blank second one was discarded and the last one is a chunk
C28_Witness ==
  /\ chunked # <<>>
  /\ Len(chunked[1].pages) >= 2
  /\ \E p \in 1..Len(chunked[1].pages) :
       /\ TLen(chunked[1].pages[p]) > 2 * (CHUNK_SIZE - CHUNK_OVERLAP)
       /\ Len(PageChunkTexts(chunked[1], p)) = 2
       /\ PageChunkTexts(chunked[1], p)[2] = WindowText(chunked[1].pages[p], 2)
  /\ \E j \in 1..Len(chunked[1].allChunks) :
       TLen(chunked[1].allChunks[j].chunk_text) = CHUNK_SIZE

\* C29: the j-th chunk of a result (counted from 0) has chunk_index j, and
\* the chunks of a page follow those of the pages before it without a gap
\* and without starting again from 0
C29_GlobalContiguousIndices ==
  chunked # <<>> =>
    LET call == chunked[1]
    IN  /\ \A j \in 1..Len(call.allChunks) : call.allChunks[j].chunk_index = j - 1
        /\ \A p \in 1..Len(call.pages) :
             \A j \in (Len(ChunksUpTo(call.pages, p - 1)) + 1)..Len(ChunksUpTo(call.pages, p)) :
               call.allChunks[j].chunk_index >= Len(ChunksUpTo(call.pages, p - 1))

\* three pages with chunks, the second with a discarded window: the third
\* page's first chunk has the index 3
C29_Witness ==
  /\ chunked # <<>>
  /\ Len(chunked[1].pages) = 3
  /\ Len(ChunksUpTo(chunked[1].pages, 1)) = 1
  /\ TLen(chunked[1].pages[2]) > 2 * (CHUNK_SIZE - CHUNK_OVERLAP)
  /\ Len(ChunksUpTo(chunked[1].pages, 2)) = 3
  /\ Len(chunked[1].allChunks) > 3
  /\ chunked[1].allChunks[4].chunk_index = 3

\* the number of chunks of the batches whose promise is fulfilled
CompletedChunks(batchList, states) ==
  SumSeq([c \in 1..Len(states) |->
            IF states[c] = "fulfilled" THEN Len(batchList[c]) ELSE 0])

\* C30: the step in which a batch completes leaves in the job entry chunk =
\* the number of chunks of all batches completed so far, totalChunks, and
\* progress = 10 + floor(80 * chunk / totalChunks); when it is the last batch
\* to complete, chunk = totalChunks and progress = 90
C30_ProgressCountsCompletedBatches ==
  [][\A u \in UploadIds : \A b \in 1..Len(bstate[u]) :
       (bstate[u][b] = "pending" /\ bstate'[u][b] = "fulfilled") =>
         LET count == CompletedChunks(batches[u], bstate'[u])
             total == Len(chunks[u])
         IN  /\ uploadStatus'[u] # <<>>
             /\ uploadStatus'[u][1].chunk = <<count>>
             /\ uploadStatus'[u][1].totalChunks = <<total>>
             /\ uploadStatus'[u][1].progress = <<10 + ((80 * count) \div total)>>
             /\ processedChunks'[u] = count
             /\ (\A c \in 1..Len(bstate'[u]) : bstate'[u][c] = "fulfilled") =>
                  /\ uploadStatus'[u][1].chunk = <<total>>
                  /\ uploadStatus'[u][1].progress = <<90>>]_vars

\* all batches of an upload of three batches or more have completed, not in
\* the order they were started in, and the entry holds every chunk
C30_Witness ==
  \E u \in UploadIds :
    /\ Len(bstate[u]) >= 3
    /\ \A c \in 1..Len(bstate[u]) : bstate[u][c] = "fulfilled"
    /\ results[u][1].chunk.chunk_index # 0
    /\ uploadStatus[u] # <<>>
    /\ uploadStatus[u][1].chunk = <<Len(chunks[u])>>
    /\ uploadStatus[u][1].progress = <<90>>

\* C31: the progress of every job entry, and of what getUploadStatus returns
\* for an id without entry, is an integer from 0 to 100
C31_ProgressInRange ==
  \A id \in StatusIds :
    LET entry == getUploadStatus(uploadStatus, id)
    IN  /\ entry.progress # <<>>
        /\ entry.progress[1] \in 0..100

\* an upload part-way through its batches, next to an id without entry
C31_Witness ==
  /\ \E u \in UploadIds :
       /\ uploadStatus[u] # <<>>
       /\ uploadStatus[u][1].progress # <<>>
       /\ uploadStatus[u][1].progress[1] \in 11..89
  /\ uploadStatus["nojob"] = <<>>
  /\ getUploadStatus(uploadStatus, "nojob").progress = <<0>>

\* ==================================================== concurrent uploads
\* two upload requests in flight at once: the first without file, with a
\* file that does not parse or with a document of four batches, the second
\* with a document of two batches; no client polls
ConcurrentInit ==
  /\ \E r \in { s \in SampleRequests :
                  \/ s.file = <<>>
                  \/ ~s.file[1].parseable
                  \/ /\ s.embeddingProvider = "ollama"
                     /\ s.file[1].pages = << WindowsPage(3 * OLLAMA_BATCH_SIZE + 1) >> } :
       req = [u \in UploadIds |->
                IF u = "u1" THEN <<r>>
                ELSE <<[file |-> <<[parseable |-> TRUE,
                                    pages |-> << WindowsPage(OLLAMA_BATCH_SIZE + 1) >>]>>,
                        embeddingProvider |-> "ollama"]>>]
  /\ InitCommon

ConcurrentNext == \E u \in UploadIds : UploadStep(u)

ConcurrentSpec == ConcurrentInit /\ [][ConcurrentNext]_vars

\* C32: a step of one upload leaves the entry of the other upload as it is,
\* and the step in which a batch of an upload completes sets the chunk
\* counter and the progress of its entry from the completed batches of that
\* upload alone
C32_JobsDoNotContend ==
  [][\A u \in UploadIds :
       /\ \A v \in UploadIds \ {u} :
            UploadStep(v) => uploadStatus'[u] = uploadStatus[u]
       /\ \A b \in 1..Len(bstate[u]) :
            (bstate[u][b] = "pending" /\ bstate'[u][b] = "fulfilled") =>
              /\ uploadStatus'[u] # <<>>
              /\ uploadStatus'[u][1].chunk = <<CompletedChunks(batches[u], bstate'[u])>>
              /\ uploadStatus'[u][1].totalChunks = <<Len(chunks[u])>>
              /\ uploadStatus'[u][1].progress =
                   <<10 + ((80 * CompletedChunks(batches[u], bstate'[u])) \div Len(chunks[u]))>>]_vars

\* both uploads are part-way through their batches, each entry with the
\* count of its own upload
C32_Witness ==
  /\ \A u \in UploadIds :
       /\ uploadStatus[u] # <<>>
       /\ \E b \in 1..Len(bstate[u]) : bstate[u][b] = "pending"
       /\ uploadStatus[u][1].chunk = <<CompletedChunks(batches[u], bstate[u])>>
  /\ uploadStatus["u1"][1].chunk = <<2 * OLLAMA_BATCH_SIZE>>
  /\ uploadStatus["u1"][1].totalChunks = <<3 * OLLAMA_BATCH_SIZE + 1>>
  /\ uploadStatus["u2"][1].chunk = <<OLLAMA_BATCH_SIZE>>
  /\ uploadStatus["u2"][1].totalChunks = <<OLLAMA_BATCH_SIZE + 1>>

\* ============================================= what the provider is sent
RECURSIVE Joined(_)
Joined(lists) == IF lists = <<>> THEN <<>> ELSE Head(lists) \o Joined(Tail(lists))

\* the batches of an upload are the consecutive slices of its chunk list,
\* full but for the last, and together they are the chunk list
SlicesOfChunks(u) ==
  LET size == BatchSizeOf(provider[u])
      n == Len(batches[u])
  IN  /\ size = (IF provider[u] = "openai" THEN 16 ELSE 4)
      /\ Joined(batches[u]) = chunks[u]
      /\ \A b \in 1..n :
           /\ Len(batches[u][b]) = (IF b < n THEN size ELSE Len(chunks[u]) - (size * (n - 1)))
           /\ Len(batches[u][b]) \in 1..size
           /\ \A i \in 1..Len(batches[u][b]) :
                batches[u][b][i] = chunks[u][(size * (b - 1)) + i]

\* the results hold, batch after batch in completion order, the chunks of
\* the completed batches, each once, each with the vector of the first 512
\* characters of its text
SubmittedOnce(u) ==
  /\ Len(results[u]) = CompletedChunks(batches[u], bstate[u])
  /\ \A k \in 1..Len(results[u]) :
       LET r == results[u][k]
           text == r.embedding.of
       IN  /\ \E b \in 1..Len(batches[u]) :
                /\ bstate[u][b] = "fulfilled"
                /\ \E i \in 1..Len(batches[u][b]) : batches[u][b][i] = r.chunk
           /\ \A j \in 1..Len(results[u]) : results[u][j].chunk = r.chunk => j = k
           /\ TLen(text) = Min(512, TLen(r.chunk.chunk_text))
           /\ text = Slice(r.chunk.chunk_text, 0, TLen(text))

\* generateEmbeddings has returned: every batch was sent (processBatch was
\* called for it and has issued its requests)
AllSubmitted(u) ==
  embeddedChunks[u] # <<>> =>
    /\ Len(bstate[u]) = Len(batches[u])
    /\ \A b \in 1..Len(batches[u]) : bstate[u][b] # "unstarted"

\* a batch is sent once: its promise leaves "unstarted" for "pending" and
\* "pending" for a settled state, and never goes back
NoResubmission(u) ==
  \A b \in 1..Len(bstate[u]) :
    /\ Len(bstate'[u]) = Len(bstate[u])
    /\ bstate'[u][b] # bstate[u][b] =>
         \/ bstate[u][b] = "unstarted" /\ bstate'[u][b] = "pending"
         \/ bstate[u][b] = "pending" /\ Settled(bstate'[u][b])

\* C33: generateEmbeddings sends the chunks in consecutive slices of 16
\* (openai) or 4 (ollama) chunks, only the last one shorter, that together are
\* the chunk list; a batch is sent once and, when the call returns, every batch
\* was sent; each text sent is the first at most 512 characters of its chunk
C33_EveryChunkSubmittedOnce ==
  /\ [](\A u \in UploadIds : SlicesOfChunks(u) /\ SubmittedOnce(u) /\ AllSubmitted(u))
  /\ [][\A u \in UploadIds : NoResubmission(u)]_vars

\* a call that returned for a document of two or more batches, the last one
\* short, with chunks of more than 512 characters
C33_Witness ==
  \E u \in UploadIds :
    /\ embeddedChunks[u] # <<>>
    /\ provider[u] = "openai"
    /\ Len(batches[u]) = 2
    /\ Len(batches[u][1]) = 16
    /\ Len(batches[u][2]) = 1
    /\ TLen(chunks[u][1].chunk_text) = CHUNK_SIZE
    /\ TLen(embeddedChunks[u][1][1].embedding.of) = 512

\* ============================================================ chunkText
\* the loop of chunkText is followed for at most this many windows
MaxWindows == 4

\* the indices of the line feeds of a text
RECURSIVE LineFeeds(_, _)
LineFeeds(t, offset) ==
  IF t = <<>> THEN {}
  ELSE (IF Head(t).c = "\n" THEN offset..(offset + Head(t).n - 1) ELSE {})
         \cup LineFeeds(Tail(t), offset + Head(t).n)

\* text.lastIndexOf('\n', position): the last line feed at or before the
\* position, which is clamped to the text; -1 when there is none
lastIndexOf(t, position) ==
  LET start == Min(Max(position, 0), TLen(t) - 1)
      found == { p \in LineFeeds(t, 0) : p <= start }
  IN  IF found = {} THEN 0 - 1 ELSE CHOOSE p \in found : \A q \in found : q <= p

\* text.indexOf('\n', position): the first line feed at or after the position
indexOf(t, position) ==
  LET start == Min(Max(position, 0), TLen(t))
      found == { p \in LineFeeds(t, 0) : p >= start }
  IN  IF found = {} THEN 0 - 1 ELSE CHOOSE p \in found : \A q \in found : p <= q

\* String.prototype.slice(a, b) for any integers: a negative index counts
\* from the end of the string
SliceAny(t, a, b) ==
  LET rel(x) == IF x < 0 THEN Max(TLen(t) + x, 0) ELSE Min(x, TLen(t))
  IN  Slice(t, rel(a), rel(b))

\* one iteration of the loop of chunkText: where the window ends, the chunk
\* pushed and the next window start
chunkTextWindow(text, chunkSize, i) ==
  LET raw == i + chunkSize
      preceding == lastIndexOf(text, raw)
      nextBreak == IF preceding <= i THEN indexOf(text, raw) ELSE preceding
      end == IF nextBreak > i /\ 2 * (nextBreak - i) < 3 * chunkSize THEN nextBreak ELSE raw
  IN  [end |-> end, chunk |-> Trim(SliceAny(text, i, end)), i |-> end - 200]

\* texts without line feed, with line feeds between paragraphs, with a line
\* feed only after the raw offset, with a line feed at either end
SampleTexts ==
  { <<>>,
    Str("a", 700),
    Str("a", 3000),
    Str("a", 2) \o Str("\n", 1) \o Str("b", 2),
    Str("a", 1000) \o Str("\n", 1) \o Str("b", 1000) \o Str("\n", 1) \o Str("c", 1000),
    Str("a", 1800) \o Str("\n", 1) \o Str("b", 100),
    Str("a", 2500) \o Str("\n", 1) \o Str("b", 10),
    Str("\n", 1) \o Str("a", 3),
    Str("a", 1000) \o Str("\n", 1) }

\* the default chunkSize, and chunk sizes up to the overlap
SampleChunkSizes == { 1500, 200, 100 }

\* chunkText(text, chunkSize) is called
ChunkTextCall ==
  /\ textChunker = <<>>
  /\ \E text \in SampleTexts : \E chunkSize \in SampleChunkSizes :
       textChunker' = <<[text |-> text, chunkSize |-> chunkSize, i |-> 0,
                         windows |-> <<>>, chunks |-> <<>>, result |-> <<>>]>>
  /\ UNCHANGED <<pipelineVars, uploadStatus, lastUpdate, returned, ragQuery, chatVars, chunked, generated, webClient>>

\* while (i < text.length): one window
ChunkTextWindow ==
  /\ textChunker # <<>>
  /\ textChunker[1].result = <<>>
  /\ textChunker[1].i < TLen(textChunker[1].text)
  /\ Len(textChunker[1].windows) < MaxWindows
  /\ \E call \in {textChunker[1]} :
     \E w \in {chunkTextWindow(call.text, call.chunkSize, call.i)} :
       textChunker' = <<[call EXCEPT !.windows = Append(@, [start |-> call.i, end |-> w.end]),
                                     !.chunks = Append(@, w.chunk),
                                     !.i = w.i]>>
  /\ UNCHANGED <<pipelineVars, uploadStatus, lastUpdate, returned, ragQuery, chatVars, chunked, generated, webClient>>

\* the loop is left: return chunks.filter(Boolean)
ChunkTextReturn ==
  /\ textChunker # <<>>
  /\ textChunker[1].result = <<>>
  /\ textChunker[1].i >= TLen(textChunker[1].text)
  /\ textChunker' = <<[textChunker[1] EXCEPT
                         !.result = <<SelectSeq(textChunker[1].chunks, LAMBDA c : c # <<>>)>>]>>
  /\ UNCHANGED <<pipelineVars, uploadStatus, lastUpdate, returned, ragQuery, chatVars, chunked, generated, webClient>>

TextChunkerNext ==
  \/ ChunkTextCall
  \/ ChunkTextWindow
  \/ ChunkTextReturn

TextChunkerSpec == ChunkerInit /\ [][TextChunkerNext]_vars


\* where the claim puts the end of the window that starts at i
ClaimedEnd(text, chunkSize, i) ==
  LET raw == i + chunkSize
      before == { p \in LineFeeds(text, 0) : p > i /\ p <= raw }
      after == { p \in LineFeeds(text, 0) : p >= raw }
  IN  IF before # {} THEN CHOOSE p \in before : \A q \in before : q <= p
      ELSE IF after # {} THEN CHOOSE p \in after : \A q \in after : p <= q
      ELSE raw

\* C34: every window of chunkText ends at the last line feed that lies after
\* the window start and not after the raw offset (window start + chunkSize);
\* without such a line feed, at the first line feed from the raw offset on;
\* without any, at the raw offset
C34_WindowEndsAtNearestNewline ==
  textChunker # <<>> =>
    \A w \in 1..Len(textChunker[1].windows) :
      textChunker[1].windows[w].end =
        ClaimedEnd(textChunker[1].text, textChunker[1].chunkSize, textChunker[1].windows[w].start)

\* C35: every iteration of the loop of chunkText moves the window start
\* forward, so that the loop ends
C35_WindowStartAdvances ==
  [][(/\ textChunker # <<>>
      /\ textChunker' # <<>>
      /\ Len(textChunker'[1].windows) > Len(textChunker[1].windows)) =>
       textChunker'[1].i > textChunker[1].i]_vars


\* ===================================================== terminal entries
\* the entry of an upload that has ended: an error is recorded, or the
\* progress is 100 with the status 'Upload complete!'
TerminalEntry(entry) ==
  \/ entry.error # <<>>
  \/ entry.progress = <<100>> /\ entry.status = <<"Upload complete!">>

\* C36: once the entry of an upload has an error recorded, or has progress 100
\* and status 'Upload complete!', no later step changes its status or progress
C36_TerminalEntryStable ==
  [][\A u \in UploadIds :
       (uploadStatus[u] # <<>> /\ TerminalEntry(uploadStatus[u][1])) =>
         /\ uploadStatus'[u] # <<>>
         /\ uploadStatus'[u][1].status = uploadStatus[u][1].status
         /\ uploadStatus'[u][1].progress = uploadStatus[u][1].progress]_vars


\* ======================================================== the prompt
\* the requests validateChatRequest accepts
AcceptedRequests ==
  { validateChatRequest(body).request :
      body \in { b \in SampleChatBodies : validateChatRequest(b).ok } }

\* a direct call generateResponse(request, ragChunks) with a list that
\* processRAGQuery returns
GenerateResponse ==
  /\ generated = <<>>
  /\ \E request \in AcceptedRequests : \E ragChunks \in SampleResults :
       generated' = <<[request |-> request, ragChunks |-> ragChunks,
                       out |-> generateResponse(request, ragChunks)]>>
  /\ UNCHANGED <<pipelineVars, uploadStatus, lastUpdate, returned, ragQuery, chatVars,
                 chunked, textChunker, webClient>>

PromptNext == GenerateResponse

PromptSpec == ChatInit /\ [][PromptNext]_vars

\* C37: when generateResponse is called for a request with useRag true and
\* one of the models openrouter, openai and ollama, with at least one
\* retrieved chunk, the prompt it passes to the provider holds the text of
\* every retrieved chunk
C37_PromptHoldsRetrievedChunks ==
  (/\ generated # <<>>
   /\ generated[1].request.useRag
   /\ generated[1].request.model \in {"openrouter", "openai", "ollama"}
   /\ Len(generated[1].ragChunks) > 0) =>
    /\ generated[1].out.ok
    /\ \A i \in 1..Len(generated[1].ragChunks) :
         \E s \in 1..Len(generated[1].out.prompt.sources) :
           generated[1].out.prompt.sources[s] = generated[1].ragChunks[i].chunk_text


\* ============================================= retrieval that throws
\* the query embedding arrived, and getAllChunks or the scoring of a chunk
\* throws: the catch returns []
RAGQueryScoringFails ==
  /\ ragQuery = <<>>
  /\ \E queryEmbedding \in SampleQueries : \E maxChunks \in SampleMaxChunks :
       ragQuery' = <<[queryEmbedding |-> queryEmbedding, maxChunks |-> maxChunks,
                      path |-> "error", chunks |-> <<>>]>>
  /\ UNCHANGED retrievalFrame

\* the chat server: calls of processRAGQuery next to the turns of the route
RagChatNext ==
  \/ ProcessRAGQuery
  \/ RAGQueryEmbeddingFails
  \/ RAGQueryScoringFails
  \/ \E body \in SampleChatBodies : ChatArrives(body)
  \/ ChatGenerated
  \/ ChatGenerationFails

RagChatSpec == ChatInit /\ [][RagChatNext]_vars

MaxUploads == 2
MaxInflight == 2
MaxTimeouts == 2

\* documentsLogic.isUploadComplete(progress)
isUploadComplete(progress) ==
  \/ progress.progress # <<>> /\ progress.progress[1] >= 100
  \/ progress.error # <<>>

\* the page is mounted, nothing is uploading; the server holds for each
\* upload id the entry of a completed upload, the entry of a failed one, or
\* no entry (its map starts empty with every server process)
PollInit ==
  /\ req = [u \in UploadIds |-> <<>>]
  /\ \E entries \in [UploadIds ->
                       { <<>>,
                         <<Merge(StatusEmbedded(5, 5), StatusComplete)>>,
                         <<Merge(StatusExtracting,
                                 StatusError(<<"Failed to process document">>))>> }] :
       uploadStatus = [i \in StatusIds |-> IF i \in UploadIds THEN entries[i] ELSE <<>>]
  /\ InitOutsideStatus
  /\ documents = <<>>
  /\ chunkRows = <<>>
  /\ lastDocId = 0

clientFrame == <<pipelineVars, uploadStatus, lastUpdate, returned, ragQuery, chatVars,
                 chunked, textChunker, generated>>

\* uploadDocument up to its await: the request is sent
UploadDocument ==
  /\ ~webClient.isUploading
  /\ webClient.uploads < MaxUploads
  /\ webClient' = [webClient EXCEPT
                     !.isUploading = TRUE,
                     !.uploads = @ + 1,
                     !.uploadProgress = <<[NoFields EXCEPT !.progress = <<0>>,
                                                          !.status = <<"Starting upload...">>]>>]
  /\ UNCHANGED clientFrame

\* uploadDocument after its await: the response carries the upload id, which
\* becomes currentUploadId, or the request failed
UploadSettles ==
  /\ webClient.isUploading
  /\ \/ \E id \in {IF webClient.uploads = 1 THEN "u1" ELSE "u2"} :
          webClient' = [webClient EXCEPT !.isUploading = FALSE, !.currentUploadId = <<id>>]
     \/ webClient' = [webClient EXCEPT !.isUploading = FALSE]
  /\ UNCHANGED clientFrame

\* the effect on [currentUploadId, pollUploadStatus] after a render with a new
\* currentUploadId: the cleanup the last run returned, then the new run
PollingEffect ==
  /\ webClient.effectFor # webClient.currentUploadId
  /\ LET cleaned == IF webClient.effectFor # <<>> /\ webClient.intervalRef # <<>>
                      THEN [webClient EXCEPT
                              !.intervals = { t \in @ : t.handle # webClient.intervalRef[1] },
                              !.intervalRef = <<>>]
                      ELSE webClient
     IN  webClient' =
           IF cleaned.currentUploadId = <<>>
             THEN [cleaned EXCEPT
                     !.intervals = IF cleaned.intervalRef # <<>>
                                     THEN { t \in @ : t.handle # cleaned.intervalRef[1] }
                                     ELSE @,
                     !.intervalRef = <<>>,
                     !.effectFor = <<>>]
             ELSE [cleaned EXCEPT
                     !.intervals = @ \cup {[handle |-> cleaned.handles + 1,
                                            uploadId |-> cleaned.currentUploadId[1]]},
                     !.intervalRef = <<cleaned.handles + 1>>,
                     !.handles = @ + 1,
                     !.effectFor = cleaned.currentUploadId]
  /\ UNCHANGED clientFrame

\* an interval fires: pollUploadStatus(currentUploadId) up to its await
IntervalTick ==
  /\ Len(webClient.polls) < MaxInflight
  /\ \E t \in webClient.intervals :
       webClient' = [webClient EXCEPT !.polls = Append(@, t.uploadId)]
  /\ UNCHANGED clientFrame

\* the status route answers a request: pollUploadStatus after its await
PollResponse ==
  /\ \E p \in 1..Len(webClient.polls) :
       LET progress == getUploadStatus(uploadStatus, webClient.polls[p])
           rest == SubSeq(webClient.polls, 1, p - 1)
                     \o SubSeq(webClient.polls, p + 1, Len(webClient.polls))
       IN  /\ isUploadComplete(progress) => webClient.timeouts < MaxTimeouts
           /\ webClient' = [webClient EXCEPT
                              !.polls = rest,
                              !.uploadProgress = <<progress>>,
                              !.timeouts = IF isUploadComplete(progress) THEN @ + 1 ELSE @]
  /\ UNCHANGED clientFrame

\* a status request fails: the catch of pollUploadStatus
PollFails ==
  /\ \E p \in 1..Len(webClient.polls) :
       webClient' = [webClient EXCEPT
                       !.polls = SubSeq(@, 1, p - 1) \o SubSeq(@, p + 1, Len(@)),
                       !.uploadProgress =
                         <<[NoFields EXCEPT !.progress = <<0>>,
                                            !.status = <<"Failed to get upload status">>,
                                            !.error = <<"Status check failed">>]>>]
  /\ UNCHANGED clientFrame

\* the timer pollUploadStatus set fires after UPLOAD_STATUS_DISPLAY_DURATION
DisplayTimeout ==
  /\ webClient.timeouts > 0
  /\ webClient' = [webClient EXCEPT !.timeouts = @ - 1,
                                    !.currentUploadId = <<>>,
                                    !.uploadProgress = <<>>]
  /\ UNCHANGED clientFrame

PollNext ==
  \/ UploadDocument
  \/ UploadSettles
  \/ PollingEffect
  \/ IntervalTick
  \/ PollResponse
  \/ PollFails
  \/ DisplayTimeout

\* effects and timers run, and the status route does not fail for ever
PollLiveSpec ==
  /\ PollInit
  /\ [][PollNext]_vars
  /\ WF_vars(PollingEffect)
  /\ WF_vars(IntervalTick)
  /\ SF_vars(PollResponse)
  /\ WF_vars(DisplayTimeout)

\* C39: at most one polling interval is active at any time, and once
\* currentUploadId is set the polling interval is eventually cleared, whatever
\* the status route answers for the id (a completed entry, an entry with an
\* error, or the placeholder 'Unknown upload')
C39_PollingEventuallyCleared ==
  /\ [](Cardinality(webClient.intervals) <= 1)
  /\ [](webClient.currentUploadId # <<>> => <>(webClient.intervals = {}))

====
